---- MODULE Spec2Model ----
(***************************************************************************)
(* Frame tree store, subagent/idle tracker and the command surface of the  *)
(* stack plugin (src/unnamed/part_004).                                    *)
(*                                                                         *)
(* Every string-like value of the program is modelled as a pair            *)
(* <<tag, n>> so that ids, texts and the JavaScript `undefined` (None)     *)
(* are comparable with each other.  Timestamps are readings of the         *)
(* logical clock `now` (Date.now()); 0 stands for an unset timestamp.      *)
(***************************************************************************)
EXTENDS Integers, Sequences, FiniteSets, TLC

\* ------------------------------------------------------------------------
\* Bounds of the model
\* ------------------------------------------------------------------------
NumSes == 3
NumPlan == 2
MaxNow == 2
MaxMessages == 2
MaxInflight == 2
MaxSteps == 5
MaxActivateSteps == 7
MaxReplaceSteps == 10
MaxRaceSteps == 6
MaxCacheSteps == 5
NumPutSessions == 52
NumRepeated == 1
MaxChain == 4
MaxBudget == 4
MaxSiblings == 2
MaxSiblingsBudget == 6
MaxWaits == 2
MaxWorkflowSteps == 9
MaxRenderSteps == 7
NumResults == 1
NumReasons == 2
MaxAutonomySteps == 5
MaxLoadSteps == 4
MaxStorageSteps == 4
MaxWrites == 4
MaxScoreSteps == 2
MaxInterleavedSteps == 5
MaxIdleSteps == 6
LowThreshold == 40
OddThreshold == 33

\* ------------------------------------------------------------------------
\* Values
\* ------------------------------------------------------------------------
None == <<"none", 0>>

SesId(i) == <<"ses_", i>>
PlanId(i) == <<"plan-", i>>
SesIds == {SesId(i) : i \in 1..NumSes}
PlanIds == {PlanId(i) : i \in 1..NumPlan}

\* existingFrame.parentSessionID?.startsWith("ses_")
startsWithSes(id) == id[1] = "ses_"

TerminalStatuses == {"completed", "failed", "invalidated"}
PopStatuses == {"completed", "failed", "blocked"}

\* texts supplied by callers or built by the handlers
ToolTitle == <<"title", 1>>
ToolCriteria == <<"criteria", 1>>
ToolCriteriaCompacted == <<"criteriaC", 1>>
SubagentGoal == <<"Subagent task", 0>>
SessionTitle == <<"Session", 0>>
defaultCriteria == <<"(Auto-created root frame)", 0>>
AutoCompletedText == <<"(Auto-completed after idle timeout)", 0>>
SummaryText == <<"summary", 0>>
Results(i) == <<"results", i>>
ResultsCompacted(i) == <<"resultsC", i>>
Reason(i) == <<"reason", i>>
\* `Parent frame invalidated: ${reason}`
CascadeReason(reason) == <<"Parent frame invalidated: ", reason[2]>>

minMessageCount == 1
minDuration == 1

VARIABLES
    state,             \* persisted aggregate: frames, activeFrameID, rootFrameIDs
    frameFiles,        \* persisted per-frame records, as last written by saveFrame
    replaceCall,       \* the replaceFrameID call that is being followed write by write
    currentSessionID,  \* runtime.currentSessionID
    sessions,          \* runtime.subagentTracking.sessions
    timers,            \* sessions whose idle timer is scheduled and has not fired
    hostSessions,      \* number of sessions the host has created so far
    planCount,         \* number of plan-* ids generated so far
    events,            \* session.created events the host has not delivered yet
    inflight,          \* handlers suspended at an await
    now,               \* Date.now()
    autonomy,          \* runtime.autonomyTracking: config, pendingSuggestions, stats
    completedInPeriod, \* history: sessions whose frame was completed in their current idle period
    activeSinceIdle,   \* history: sessions with a message since their last idle notification
    budget,            \* what is left of the bounds: handler steps, suspended handlers
    contextCache,      \* runtime.contextCache
    assembled,         \* history: what the last context assembly of each frame returned
    selection,         \* a call of selectAncestors: its arguments and what it returned
    last               \* the store operation performed by the last step

vars == <<state, frameFiles, replaceCall, currentSessionID, sessions, timers, hostSessions, planCount,
          events, inflight, now, completedInPeriod, activeSinceIdle, budget, contextCache,
          assembled, selection, autonomy, last>>

\* ------------------------------------------------------------------------
\* Helpers for JavaScript objects and arrays
\* ------------------------------------------------------------------------
Put(f, k, v) == (k :> v) @@ f
Remove(f, k) == [x \in (DOMAIN f) \ {k} |-> f[x]]
Range(s) == {s[i] : i \in 1..Len(s)}

\* Array.prototype.indexOf (1-based; 0 when absent)
indexOf(s, x) ==
    IF x \in Range(s) THEN CHOOSE i \in 1..Len(s) : s[i] = x /\ \A j \in 1..(i - 1) : s[j] # x
    ELSE 0

\* ------------------------------------------------------------------------
\* Frame Store (class FrameStateManager)
\* ------------------------------------------------------------------------
getDefaultState == [frames |-> <<>>, activeFrameID |-> None, rootFrameIDs |-> <<>>]

NewFrame(sessionID, parentSessionID, status, title, successCriteria, successCriteriaCompacted, t) ==
    [sessionID |-> sessionID,
     parentSessionID |-> parentSessionID,
     status |-> status,
     title |-> title,
     successCriteria |-> successCriteria,
     successCriteriaCompacted |-> successCriteriaCompacted,
     results |-> None,
     resultsCompacted |-> None,
     updatedAt |-> t,
     invalidationReason |-> None,
     invalidatedAt |-> 0,
     artifacts |-> <<>>,
     plannedChildren |-> <<>>]

getFrame(st, sessionID) ==
    IF sessionID \in DOMAIN st.frames THEN st.frames[sessionID] ELSE None

hasFrame(st, sessionID) == sessionID \in DOMAIN st.frames

\* saveFrame for each of `ids`: the record file of a frame holds the frame
\* as the operation leaves it in its aggregate st2
saveFrame(files, st2, ids) ==
    LET saved == ids \cap DOMAIN st2.frames
    IN [id \in DOMAIN files \cup saved |->
           IF id \in saved THEN st2.frames[id] ELSE files[id]]

createFrame(st, sessionID, title, successCriteria, successCriteriaCompacted, parentSessionID, t) ==
    LET frame == NewFrame(sessionID, parentSessionID, "in_progress", title,
                          successCriteria, successCriteriaCompacted, t)
    IN [frames |-> Put(st.frames, sessionID, frame),
        activeFrameID |-> sessionID,
        rootFrameIDs |-> IF parentSessionID = None
                         THEN Append(st.rootFrameIDs, sessionID)
                         ELSE st.rootFrameIDs]

updateFrameStatus(st, sessionID, status, results, resultsCompacted, t) ==
    IF ~hasFrame(st, sessionID) THEN st
    ELSE LET frame == st.frames[sessionID]
             updated == [frame EXCEPT
                           !.status = status,
                           !.results = IF results # None THEN results ELSE @,
                           !.resultsCompacted = IF resultsCompacted # None THEN resultsCompacted ELSE @,
                           !.updatedAt = t]
         IN [st EXCEPT !.frames = Put(@, sessionID, updated)]

completeFrame(st, sessionID, status, results, resultsCompacted, t) ==
    IF ~hasFrame(st, sessionID) THEN st
    ELSE LET frame == st.frames[sessionID]
             updated == [frame EXCEPT
                           !.status = status,
                           !.results = results,
                           !.resultsCompacted = resultsCompacted,
                           !.updatedAt = t]
         IN [st EXCEPT !.frames = Put(@, sessionID, updated),
                       !.activeFrameID = frame.parentSessionID]

getChildren(st, sessionID) ==
    {id \in DOMAIN st.frames : st.frames[id].parentSessionID = sessionID}

\* getAncestors: immediate parent first, root last
RECURSIVE getAncestors(_, _)
getAncestors(st, sessionID) ==
    IF ~hasFrame(st, sessionID) THEN <<>>
    ELSE LET parentID == st.frames[sessionID].parentSessionID
         IN IF parentID # None /\ hasFrame(st, parentID)
            THEN <<parentID>> \o getAncestors(st, parentID)
            ELSE <<>>

setActiveFrame(st, sessionID) == [st EXCEPT !.activeFrameID = sessionID]

createPlannedFrame(st, sessionID, title, successCriteria, successCriteriaCompacted, parentSessionID, t) ==
    LET frame == NewFrame(sessionID, parentSessionID, "planned", title,
                          successCriteria, successCriteriaCompacted, t)
        added == Put(st.frames, sessionID, frame)
    IN IF parentSessionID = None
       THEN [st EXCEPT !.frames = added, !.rootFrameIDs = Append(@, sessionID)]
       ELSE IF parentSessionID \in DOMAIN added
            THEN [st EXCEPT !.frames =
                     [added EXCEPT ![parentSessionID].plannedChildren = Append(@, sessionID),
                                   ![parentSessionID].updatedAt = t]]
            ELSE [st EXCEPT !.frames = added]

\* variant: activation without the test of the current status
activateFrameAnyStatus(st, sessionID, t) ==
    IF ~hasFrame(st, sessionID) THEN st
    ELSE [st EXCEPT !.frames[sessionID].status = "in_progress",
                    !.frames[sessionID].updatedAt = t,
                    !.activeFrameID = sessionID]

activateFrame(st, sessionID, t) ==
    IF ~hasFrame(st, sessionID) THEN st
    ELSE IF st.frames[sessionID].status # "planned" THEN st
    ELSE [st EXCEPT !.frames[sessionID].status = "in_progress",
                    !.frames[sessionID].updatedAt = t,
                    !.activeFrameID = sessionID]

\* variant: the replacement also starts the frame
replaceFrameIDStarting(st, oldID, newID, t) ==
    IF ~hasFrame(st, oldID) THEN st
    ELSE LET frame == [st.frames[oldID] EXCEPT !.sessionID = newID, !.updatedAt = t,
                                               !.status = "in_progress"]
             moved == Put(Remove(st.frames, oldID), newID, frame)
             \* children's parentSessionID (each saved, which stamps updatedAt)
             reparented == [id \in DOMAIN moved |->
                              IF moved[id].parentSessionID = oldID
                              THEN [moved[id] EXCEPT !.parentSessionID = newID, !.updatedAt = t]
                              ELSE moved[id]]
             self == reparented[newID]
             parentID == self.parentSessionID
             idx == IF parentID # None /\ parentID \in DOMAIN reparented
                    THEN indexOf(reparented[parentID].plannedChildren, oldID)
                    ELSE 0
             relisted == IF idx > 0
                         THEN [reparented EXCEPT ![parentID].plannedChildren[idx] = newID,
                                                 ![parentID].updatedAt = t]
                         ELSE reparented
             rootIdx == indexOf(st.rootFrameIDs, oldID)
         IN [frames |-> relisted,
             rootFrameIDs |-> IF rootIdx > 0
                              THEN [st.rootFrameIDs EXCEPT ![rootIdx] = newID]
                              ELSE st.rootFrameIDs,
             activeFrameID |-> IF st.activeFrameID = oldID THEN newID ELSE st.activeFrameID]

replaceFrameID(st, oldID, newID, t) ==
    IF ~hasFrame(st, oldID) THEN st
    ELSE LET frame == [st.frames[oldID] EXCEPT !.sessionID = newID, !.updatedAt = t]
             moved == Put(Remove(st.frames, oldID), newID, frame)
             \* children's parentSessionID (each saved, which stamps updatedAt)
             reparented == [id \in DOMAIN moved |->
                              IF moved[id].parentSessionID = oldID
                              THEN [moved[id] EXCEPT !.parentSessionID = newID, !.updatedAt = t]
                              ELSE moved[id]]
             self == reparented[newID]
             parentID == self.parentSessionID
             idx == IF parentID # None /\ parentID \in DOMAIN reparented
                    THEN indexOf(reparented[parentID].plannedChildren, oldID)
                    ELSE 0
             relisted == IF idx > 0
                         THEN [reparented EXCEPT ![parentID].plannedChildren[idx] = newID,
                                                 ![parentID].updatedAt = t]
                         ELSE reparented
             rootIdx == indexOf(st.rootFrameIDs, oldID)
         IN [frames |-> relisted,
             rootFrameIDs |-> IF rootIdx > 0
                              THEN [st.rootFrameIDs EXCEPT ![rootIdx] = newID]
                              ELSE st.rootFrameIDs,
             activeFrameID |-> IF st.activeFrameID = oldID THEN newID ELSE st.activeFrameID]

\* the record files after replaceFrameID: the children, the parent whose
\* plannedChildren entry changed and the frame are saved, then the old record
\* file is renamed onto the new one (which fails when there is no old file)
replaceFrameIDFiles(files, st, oldID, newID, t) ==
    IF ~hasFrame(st, oldID) THEN files
    ELSE LET st2 == replaceFrameID(st, oldID, newID, t)
             parentID == st.frames[oldID].parentSessionID
             children == {id \in DOMAIN st.frames : st.frames[id].parentSessionID = oldID}
             parents == IF parentID # None /\ parentID \in DOMAIN st2.frames
                           /\ parentID \in DOMAIN st.frames
                           /\ oldID \in Range(st.frames[parentID].plannedChildren)
                        THEN {parentID} ELSE {}
             saved == saveFrame(files, st2, children \cup parents \cup {newID})
         IN IF oldID \in DOMAIN saved
            THEN Put(Remove(saved, oldID), newID, saved[oldID])
            ELSE saved

RECURSIVE getAllDescendants(_, _)
getAllDescendants(frames, parentID) ==
    LET children == {id \in DOMAIN frames : frames[id].parentSessionID = parentID}
    IN children \cup UNION {getAllDescendants(frames, c) : c \in children}

cascadedPlanned(st, sessionID) ==
    {d \in getAllDescendants(st.frames, sessionID) : st.frames[d].status = "planned"}

warningInProgress(st, sessionID) ==
    {d \in getAllDescendants(st.frames, sessionID) : st.frames[d].status = "in_progress"}

\* variant: the cascade stops at the direct children
invalidateFrameChildrenOnly(st, sessionID, reason, t) ==
    IF ~hasFrame(st, sessionID) THEN st
    ELSE LET main == [st.frames EXCEPT ![sessionID].status = "invalidated",
                                       ![sessionID].invalidationReason = reason,
                                       ![sessionID].invalidatedAt = t,
                                       ![sessionID].updatedAt = t]
             cascaded == [id \in DOMAIN main |->
                            IF id \in getChildren(st, sessionID) /\ main[id].status = "planned"
                            THEN [main[id] EXCEPT !.status = "invalidated",
                                                  !.invalidationReason = CascadeReason(reason),
                                                  !.invalidatedAt = t,
                                                  !.updatedAt = t]
                            ELSE main[id]]
         IN [st EXCEPT !.frames = cascaded,
                       !.activeFrameID = IF st.activeFrameID = sessionID
                                         THEN main[sessionID].parentSessionID
                                         ELSE @]

invalidateFrame(st, sessionID, reason, t) ==
    IF ~hasFrame(st, sessionID) THEN st
    ELSE LET main == [st.frames EXCEPT ![sessionID].status = "invalidated",
                                       ![sessionID].invalidationReason = reason,
                                       ![sessionID].invalidatedAt = t,
                                       ![sessionID].updatedAt = t]
             descendants == getAllDescendants(main, sessionID)
             cascaded == [id \in DOMAIN main |->
                            IF id \in descendants /\ main[id].status = "planned"
                            THEN [main[id] EXCEPT !.status = "invalidated",
                                                  !.invalidationReason = CascadeReason(reason),
                                                  !.invalidatedAt = t,
                                                  !.updatedAt = t]
                            ELSE main[id]]
         IN [st EXCEPT !.frames = cascaded,
                       !.activeFrameID = IF st.activeFrameID = sessionID
                                         THEN main[sessionID].parentSessionID
                                         ELSE @]


\* ------------------------------------------------------------------------
\* Context cache and context assembly
\* ------------------------------------------------------------------------
\* a text of n characters
Text(n) == <<"text", n>>

\* String.prototype.length (undefined counts 0, as in `x?.length || "0"`);
\* the other texts of the model are as long as their names, whatever their
\* number
length(text) ==
    IF text = None THEN 0
    ELSE IF text[1] = "text" THEN text[2]
    ELSE Len(text[1])

cacheTTL == 30000
maxCacheEntries == 50
keptCacheEntries == 25

\* the frames of ids, as the elements of an array; a set stands for an array
\* in Object.values order
framesOf(st, ids) == [i \in 1..Len(ids) |-> st.frames[ids[i]]]

getCompletedSiblings(st, sessionID) ==
    IF ~hasFrame(st, sessionID) THEN {}
    ELSE {id \in DOMAIN st.frames :
             /\ st.frames[id].parentSessionID = st.frames[sessionID].parentSessionID
             /\ id # sessionID
             /\ st.frames[id].status = "completed"}

getAllSiblings(st, sessionID) ==
    IF ~hasFrame(st, sessionID) THEN {}
    ELSE {id \in DOMAIN st.frames :
             /\ st.frames[id].parentSessionID = st.frames[sessionID].parentSessionID
             /\ id # sessionID}

\* the planned children generateFrameContextWithMetadata collects: the
\* entries of frame.plannedChildren that have a frame with status planned
plannedChildrenOf(st, sessionID) ==
    LET isPlanned(id) == hasFrame(st, id) /\ st.frames[id].status = "planned"
    IN SelectSeq(st.frames[sessionID].plannedChildren, isPlanned)

\* generateStateHash: the parts that are joined with "|"
generateStateHash(st, sessionID) ==
    LET frame == st.frames[sessionID]
        ancestors == getAncestors(st, sessionID)
        siblings == getAllSiblings(st, sessionID)
        plannedChildren == plannedChildrenOf(st, sessionID)
        part(id) == <<id, st.frames[id].status, st.frames[id].updatedAt>>
    IN <<frame.sessionID,
         frame.status,
         frame.updatedAt,
         length(frame.resultsCompacted),
         Len(ancestors),
         [i \in 1..Len(ancestors) |-> part(ancestors[i])],
         Cardinality(siblings),
         {part(id) : id \in siblings},
         Len(plannedChildren),
         [i \in 1..Len(plannedChildren) |->
             <<plannedChildren[i], st.frames[plannedChildren[i]].title>>]>>

\* ------------------------------------------------------------------------
\* Ancestor selection within the token budget
\* ------------------------------------------------------------------------
msPerHour == 1000 * 60 * 60

\* Math.ceil(text.length / 4), 0 for the empty text
estimateTokens(text) ==
    IF length(text) = 0 THEN 0 ELSE (length(text) + 3) \div 4

\* artifacts.join(", "): the length of the joined text
RECURSIVE joinLength(_)
joinLength(artifacts) ==
    IF artifacts = <<>> THEN 0
    ELSE length(Head(artifacts))
         + (IF Len(artifacts) > 1 THEN 2 ELSE 0)
         + joinLength(Tail(artifacts))

\* `${title}: ${successCriteriaCompacted}`, then results and artifacts, each
\* after a space
formatAncestorForContext(ancestor) ==
    Text(length(ancestor.title) + 2 + length(ancestor.successCriteriaCompacted)
         + (IF ancestor.resultsCompacted # None
            THEN 1 + length(ancestor.resultsCompacted) ELSE 0)
         + (IF Len(ancestor.artifacts) > 0
            THEN 1 + joinLength(ancestor.artifacts) ELSE 0))

\* the score is whole - lost / msPerHour: `whole` sums the bonuses with the
\* recency bonus at its full 50, `lost` is the part of an hour's bonus that
\* the age (in ms) takes away, so that max(0, 50 - ageHours) needs no
\* fractions; depth counts from 0 at the parent
scoreAncestor(ancestor, depth, t) ==
    LET priority == IF depth = 0 THEN 1000
                    ELSE IF depth = 1 THEN 500
                    ELSE IF 100 - depth * 20 > 0 THEN 100 - depth * 20 ELSE 0
        age      == t - ancestor.updatedAt
        status   == IF ancestor.status = "in_progress" THEN 30
                    ELSE IF ancestor.status = "completed" THEN 10 ELSE 0
        results  == IF ancestor.resultsCompacted # None THEN 20 ELSE 0
        artifact == IF Len(ancestor.artifacts) > 0 THEN 10 ELSE 0
    IN [whole |-> priority + 50 + status + results + artifact,
        lost  |-> IF age < 50 * msPerHour THEN age ELSE 50 * msPerHour]

\* b.score - a.score, as the sort reads it: below 0, 0 or above 0
scoreDifference(b, a) ==
    LET whole == (b.whole - a.whole) * msPerHour
        lost  == b.lost - a.lost
    IN IF whole > lost THEN 1 ELSE IF whole = lost THEN 0 ELSE 0 - 1

\* ancestors.map(...): ancestors is parent first
scoredAncestors(ancestors, t) ==
    [i \in 1..Len(ancestors) |->
        [ancestor |-> ancestors[i],
         depth |-> i - 1,
         score |-> scoreAncestor(ancestors[i], i - 1, t),
         estimatedTokens |-> estimateTokens(formatAncestorForContext(ancestors[i]))]]

\* scored.sort: the parent first, the others by score, highest first; the
\* sort is stable
scoredOrder(scored) ==
    LET before(j, i) == /\ j # i
                        /\ \/ scored[j].depth = 0
                           \/ /\ scored[i].depth # 0
                              /\ LET d == scoreDifference(scored[j].score, scored[i].score)
                                 IN d > 0 \/ (d = 0 /\ j < i)
        position(i) == 1 + Cardinality({j \in 1..Len(scored) : before(j, i)})
    IN [p \in 1..Len(scored) |-> CHOOSE i \in 1..Len(scored) : position(i) = p]

\* variant of the selection loop that takes the parent whatever it costs
RECURSIVE selectLoopParentAlways(_, _, _, _, _)
selectLoopParentAlways(scored, order, k, ancestorsBudget, acc) ==
    IF k > Len(order) THEN acc
    ELSE LET item == scored[order[k]]
         IN selectLoopParentAlways(scored, order, k + 1, ancestorsBudget,
                IF item.depth = 0 \/ acc.tokensUsed + item.estimatedTokens <= ancestorsBudget
                THEN [acc EXCEPT !.selected = @ \cup {order[k]},
                                 !.tokensUsed = @ + item.estimatedTokens]
                ELSE [acc EXCEPT !.truncatedCount = @ + 1])

\* for (const item of scored): acc.selected holds the places in `ancestors`
\* of the items selected so far
RECURSIVE selectLoop(_, _, _, _, _)
selectLoop(scored, order, k, ancestorsBudget, acc) ==
    IF k > Len(order) THEN acc
    ELSE LET item == scored[order[k]]
         IN selectLoop(scored, order, k + 1, ancestorsBudget,
                IF acc.tokensUsed + item.estimatedTokens <= ancestorsBudget
                THEN [acc EXCEPT !.selected = @ \cup {order[k]},
                                 !.tokensUsed = @ + item.estimatedTokens]
                ELSE [acc EXCEPT !.truncatedCount = @ + 1])

\* the selected ancestors in root-to-parent order
RECURSIVE rootToParent(_, _, _)
rootToParent(ancestors, places, i) ==
    IF i < 1 THEN <<>>
    ELSE (IF i \in places THEN <<ancestors[i]>> ELSE <<>>)
         \o rootToParent(ancestors, places, i - 1)

selectAncestors(ancestors, ancestorsBudget, t) ==
    IF Len(ancestors) = 0
    THEN [selected |-> <<>>, truncatedCount |-> 0, tokensUsed |-> 0]
    ELSE LET scored == scoredAncestors(ancestors, t)
             acc    == selectLoop(scored, scoredOrder(scored), 1, ancestorsBudget,
                                  [selected |-> {}, truncatedCount |-> 0, tokensUsed |-> 0])
         IN [selected |-> rootToParent(ancestors, acc.selected, Len(ancestors)),
             truncatedCount |-> acc.truncatedCount,
             tokensUsed |-> acc.tokensUsed]

\* ------------------------------------------------------------------------
\* Sibling selection by relevance
\* ------------------------------------------------------------------------
minRelevanceScore == 30

upperCaseLetters == "ABCDEFGHIJKLMNOPQRSTUVWXYZ"
lowerCaseLetters == "abcdefghijklmnopqrstuvwxyz"
digits == "0123456789"

charAt(s, i) == SubSeq(s, i, i)
charsOf(s) == {charAt(s, i) : i \in 1..Len(s)}

\* n characters that are no keyword material of their own
RECURSIVE filler(_)
filler(n) == IF n <= 0 THEN "" ELSE "x" \o filler(n - 1)

\* the characters of a text: a Text(n) is n characters, the other texts of
\* the model read as their names
content(text) ==
    IF text = None THEN ""
    ELSE IF text[1] = "text" THEN filler(text[2])
    ELSE text[1]

upperCaseChars == charsOf(upperCaseLetters)
wordChars == charsOf(lowerCaseLetters) \cup charsOf(digits)

\* String.prototype.toLowerCase, one character
lowerCaseOf ==
    [c \in upperCaseChars |->
        charAt(lowerCaseLetters,
               CHOOSE i \in 1..Len(upperCaseLetters) : charAt(upperCaseLetters, i) = c)]

toLowerCaseChar(c) == IF c \in upperCaseChars THEN lowerCaseOf[c] ELSE c

RECURSIVE toLowerCase(_)
toLowerCase(s) ==
    IF Len(s) = 0 THEN ""
    ELSE toLowerCaseChar(charAt(s, 1)) \o toLowerCase(SubSeq(s, 2, Len(s)))

stopWords ==
    {"the", "a", "an", "and", "or", "but", "in", "on", "at", "to", "for",
     "of", "with", "by", "from", "as", "is", "was", "are", "were", "been",
     "be", "have", "has", "had", "do", "does", "did", "will", "would", "could",
     "should", "may", "might", "must", "shall", "can", "need", "this", "that",
     "these", "those", "it", "its", "i", "you", "he", "she", "we", "they"}

\* .filter(w => w.length > 2 && !stopWords.has(w))
significant(w) == Len(w) > 2 /\ w \notin stopWords

\* .replace(/[^a-z0-9\s]/g, " ").split(/\s+/).filter(...) over the lower-case
\* text s from character i on: `word` is the word being read, `acc` the
\* set of the words kept so far
RECURSIVE keywordsFrom(_, _, _, _)
keywordsFrom(s, i, word, acc) ==
    LET kept == IF significant(word) THEN acc \cup {word} ELSE acc
    IN IF i > Len(s) THEN kept
       ELSE IF charAt(s, i) \in wordChars
            THEN keywordsFrom(s, i + 1, word \o charAt(s, i), acc)
            ELSE keywordsFrom(s, i + 1, "", kept)

\* extractKeywords, on the characters of a text
extractKeywords(s) == keywordsFrom(toLowerCase(s), 1, "", {})

\* String.prototype.includes
includes(s, word) ==
    \E i \in 1..(Len(s) - Len(word) + 1) : SubSeq(s, i, i + Len(word) - 1) = word

\* artifacts.join(separator)
RECURSIVE join(_, _)
join(artifacts, separator) ==
    IF artifacts = <<>> THEN ""
    ELSE IF Len(artifacts) = 1 THEN content(artifacts[1])
    ELSE content(artifacts[1]) \o separator \o join(Tail(artifacts), separator)

\* the score is whole - lost / msPerHour, as for scoreAncestor: `whole` sums
\* the bonuses with the recency bonus at its full 100, `lost` is what the
\* age (in ms) takes away of it, ten points an hour
scoreSibling(sibling, currentCriteria, t) ==
    LET age          == t - sibling.updatedAt
        currentWords == extractKeywords(currentCriteria)
        siblingWords == extractKeywords(content(sibling.title) \o " "
                                        \o content(sibling.successCriteriaCompacted))
        resultsWords == IF sibling.resultsCompacted # None
                        THEN extractKeywords(content(sibling.resultsCompacted)) ELSE {}
        artifactText == toLowerCase(join(sibling.artifacts, " "))
        overlap      == 20 * Cardinality(currentWords \cap siblingWords)
                        + 10 * Cardinality(currentWords \cap resultsWords)
        results      == IF sibling.resultsCompacted # None THEN 30 ELSE 0
        artifact     == IF Len(sibling.artifacts) > 0
                        THEN 15 + 25 * Cardinality({w \in currentWords : includes(artifactText, w)})
                        ELSE 0
        status       == IF sibling.status = "completed" THEN 20
                        ELSE IF sibling.status = "failed" THEN 15 ELSE 0
    IN [whole |-> 100 + overlap + results + artifact + status,
        lost  |-> IF age < 10 * msPerHour THEN 10 * age ELSE 100 * msPerHour]

\* formatSiblingForContext is formatAncestorForContext, line by line
formatSiblingForContext(sibling) == formatAncestorForContext(sibling)

\* siblings.map(...)
scoredSiblings(siblings, currentGoal, t) ==
    [i \in 1..Len(siblings) |->
        [sibling |-> siblings[i],
         score |-> scoreSibling(siblings[i], currentGoal, t),
         estimatedTokens |-> estimateTokens(formatSiblingForContext(siblings[i]))]]

\* variant of the relevance filter that lets every sibling through
isRelevantAlways(item, minScore) == TRUE

\* item.score >= minRelevanceScore
isRelevant(item, minScore) ==
    scoreDifference(item.score, [whole |-> minScore, lost |-> 0]) >= 0

\* the places (in `siblings`) of the items of `among`, by score, highest
\* first; the sort is stable
relevantOrder(scored, among) ==
    LET before(j, i) == /\ j # i
                        /\ LET d == scoreDifference(scored[j].score, scored[i].score)
                           IN d > 0 \/ (d = 0 /\ j < i)
        position(i) == 1 + Cardinality({j \in among : before(j, i)})
    IN [p \in 1..Cardinality(among) |-> CHOOSE i \in among : position(i) = p]

\* for (const item of relevant): acc.selected holds the places in `siblings`
\* of the items selected so far
RECURSIVE siblingsLoop(_, _, _, _, _)
siblingsLoop(scored, order, k, siblingsBudget, acc) ==
    IF k > Len(order) THEN acc
    ELSE LET item == scored[order[k]]
         IN siblingsLoop(scored, order, k + 1, siblingsBudget,
                IF acc.tokensUsed + item.estimatedTokens <= siblingsBudget
                THEN [acc EXCEPT !.selected = @ \cup {order[k]},
                                 !.tokensUsed = @ + item.estimatedTokens]
                ELSE [acc EXCEPT !.filteredByBudget = @ + 1])

\* selected.sort((a, b) => b.updatedAt - a.updatedAt) over the selected
\* places, which are in score order; the sort is stable
byRecency(siblings, order, places) ==
    LET chosen == SelectSeq(order, LAMBDA i : i \in places)
        before(q, p) == /\ q # p
                        /\ \/ siblings[chosen[q]].updatedAt > siblings[chosen[p]].updatedAt
                           \/ /\ siblings[chosen[q]].updatedAt = siblings[chosen[p]].updatedAt
                              /\ q < p
        position(p) == 1 + Cardinality({q \in 1..Len(chosen) : before(q, p)})
    IN [r \in 1..Len(chosen) |->
           siblings[chosen[CHOOSE p \in 1..Len(chosen) : position(p) = r]]]

selectSiblings(siblings, siblingsBudget, currentGoal, minScore, t) ==
    IF Len(siblings) = 0
    THEN [selected |-> <<>>, filteredCount |-> 0, tokensUsed |-> 0]
    ELSE LET scored   == scoredSiblings(siblings, currentGoal, t)
             relevant == {i \in 1..Len(scored) : isRelevant(scored[i], minScore)}
             order    == relevantOrder(scored, relevant)
             acc      == siblingsLoop(scored, order, 1, siblingsBudget,
                                      [selected |-> {}, filteredByBudget |-> 0, tokensUsed |-> 0])
         IN [selected |-> byRecency(siblings, order, acc.selected),
             filteredCount |-> (Len(scored) - Cardinality(relevant)) + acc.filteredByBudget,
             tokensUsed |-> acc.tokensUsed]

\* ------------------------------------------------------------------------
\* The context document and its cache
\* ------------------------------------------------------------------------
\* DEFAULT_TOKEN_BUDGET: what getTokenBudget returns when no
\* STACK_TOKEN_BUDGET_* variable is set
getTokenBudget ==
    [total |-> 4000, ancestors |-> 1500, siblings |-> 1500, current |-> 800, overhead |-> 200]

\* String.prototype.lastIndexOf(" ") (from 0; -1 when absent)
lastIndexOfSpace(s) ==
    LET places == {i \in 1..Len(s) : charAt(s, i) = " "}
    IN IF places = {} THEN 0 - 1
       ELSE (CHOOSE i \in places : \A j \in places : j <= i) - 1

truncateToTokenBudget(text, maxTokens, indicator) ==
    IF length(text) = 0 THEN [text |-> <<"", 0>>, wasTruncated |-> FALSE]
    ELSE IF estimateTokens(text) <= maxTokens THEN [text |-> text, wasTruncated |-> FALSE]
    ELSE LET maxChars  == maxTokens * 4 - Len(indicator)
             truncated == SubSeq(content(text), 1, maxChars)
             lastSpace == lastIndexOfSpace(truncated)
         IN IF maxChars <= 0 THEN [text |-> <<indicator, 0>>, wasTruncated |-> TRUE]
            ELSE [text |-> <<(IF 10 * lastSpace > 8 * maxChars
                              THEN SubSeq(truncated, 1, lastSpace)
                              ELSE truncated) \o indicator, 0>>,
                  wasTruncated |-> TRUE]

\* variant of formatFrameXml that shows the full results of a frame
formatFrameXmlFullResults(frame, sectionBudget, share) ==
    [id |-> frame.sessionID,
     status |-> frame.status,
     title |-> frame.title,
     criteria |-> frame.successCriteriaCompacted,
     results |-> [text |-> frame.results, wasTruncated |-> FALSE],
     artifacts |-> frame.artifacts]

\* formatFrameXml: an ancestor or a sibling with its compacted texts; the
\* results get 70% of a frame's share, `share` frames sharing sectionBudget
formatFrameXml(frame, sectionBudget, share) ==
    [id |-> frame.sessionID,
     status |-> frame.status,
     title |-> frame.title,
     criteria |-> frame.successCriteriaCompacted,
     results |-> IF frame.resultsCompacted # None
                 THEN truncateToTokenBudget(frame.resultsCompacted,
                                            (sectionBudget * 7) \div (share * 10),
                                            " [truncated]")
                 ELSE [text |-> None, wasTruncated |-> FALSE],
     artifacts |-> frame.artifacts]

\* an array with the members of a set of frames (Object.values order is not
\* kept by the model)
arrayOf(frames) ==
    CHOOSE s \in [1..Cardinality(frames) -> frames] : Range(s) = frames

\* buildWorkflowGuidance, by what it takes from the tree: the planning
\* notice, the current frame, the statuses of the siblings and the first
\* planned child (the fixed text is left out, and so is the position among
\* the siblings by creation time)
buildWorkflowGuidance(st, sessionID) ==
    LET frame    == st.frames[sessionID]
        siblings == getAllSiblings(st, sessionID)
        planned  == plannedChildrenOf(st, sessionID)
        count(status) == Cardinality({id \in siblings : st.frames[id].status = status})
    IN [initialPlanning |-> \/ frame.parentSessionID = None /\ Len(planned) = 0
                            \/ includes(content(frame.successCriteria), "Auto-created"),
        title |-> frame.title,
        successCriteria |-> frame.successCriteria,
        status |-> frame.status,
        siblingStatus |-> IF Cardinality(siblings) + 1 > 1
                          THEN <<count("completed"), count("in_progress") + 1, count("planned")>>
                          ELSE <<>>,
        firstChild |-> IF Len(planned) > 0 THEN st.frames[planned[1]].title ELSE None]

\* the document generateFrameContextWithMetadata builds at time t when the
\* cache does not serve it, by its content: the guidance, the budgets and
\* the counts of frames left out, the selected ancestors from the root to
\* the parent, the selected completed siblings, the current frame and its
\* planned children
buildContextXml(st, sessionID, ancestors, siblings) ==
    LET frame     == st.frames[sessionID]
        tb        == getTokenBudget
        planned   == plannedChildrenOf(st, sessionID)
    IN [session |-> sessionID,
        guidance |-> buildWorkflowGuidance(st, sessionID),
        budget |-> tb,
        truncation |-> <<ancestors.truncatedCount, siblings.filteredCount>>,
        ancestors |-> [i \in 1..Len(ancestors.selected) |->
                          formatFrameXml(ancestors.selected[i], tb.ancestors,
                                         Len(ancestors.selected))],
        siblings |-> {formatFrameXml(s, tb.siblings, Len(siblings.selected)) :
                         s \in Range(siblings.selected)},
        current |-> [id |-> sessionID, status |-> frame.status, title |-> frame.title,
                     criteria |-> frame.successCriteria, artifacts |-> frame.artifacts],
        planned |-> [i \in 1..Len(planned) |->
                        [id |-> planned[i],
                         title |-> st.frames[planned[i]].title,
                         criteria |-> st.frames[planned[i]].successCriteriaCompacted]]]

\* generateFrameContextWithMetadata when the cache has no valid entry: the
\* ancestors and the completed siblings are selected within the budgets and
\* handed to buildContextXml
generateContext(st, sessionID, t) ==
    buildContextXml(st, sessionID,
        selectAncestors(framesOf(st, getAncestors(st, sessionID)), getTokenBudget.ancestors, t),
        selectSiblings(arrayOf({st.frames[id] : id \in getCompletedSiblings(st, sessionID)}),
                       getTokenBudget.siblings,
                       content(st.frames[sessionID].title) \o " "
                          \o content(st.frames[sessionID].successCriteria),
                       minRelevanceScore, t))

\* the context returned when the session has no frame
EmptyContext == <<"", 0>>

\* runtime.contextCache is a Map: a sequence of entries in insertion order
cacheKeys(cache) == {cache[i].sessionID : i \in 1..Len(cache)}
cacheIndex(cache, sessionID) == CHOOSE i \in 1..Len(cache) : cache[i].sessionID = sessionID
cacheGet(cache, sessionID) == cache[cacheIndex(cache, sessionID)]

\* variant of isCacheValid without the test of the state hash
isCacheValidAnyHash(cache, sessionID, stateHash, t) ==
    /\ sessionID \in cacheKeys(cache)
    /\ ~(t - cacheGet(cache, sessionID).createdAt > cacheTTL)

\* variant of isCacheValid that expires an entry when its age reaches the TTL
isCacheValidBeforeTTL(cache, sessionID, stateHash, t) ==
    /\ sessionID \in cacheKeys(cache)
    /\ t - cacheGet(cache, sessionID).createdAt < cacheTTL
    /\ cacheGet(cache, sessionID).stateHash = stateHash

\* isCacheValid(runtime.contextCache.get(sessionID), stateHash) at time t
isCacheValid(cache, sessionID, stateHash, t) ==
    /\ sessionID \in cacheKeys(cache)
    /\ ~(t - cacheGet(cache, sessionID).createdAt > cacheTTL)
    /\ cacheGet(cache, sessionID).stateHash = stateHash

\* Map.prototype.set: an existing key keeps its place
cacheSet(cache, entry) ==
    IF entry.sessionID \in cacheKeys(cache)
    THEN [cache EXCEPT ![cacheIndex(cache, entry.sessionID)] = entry]
    ELSE Append(cache, entry)

\* the elements of s at the indices in keep, in their order in s
RECURSIVE keepIndices(_, _, _)
keepIndices(s, keep, i) ==
    IF i > Len(s) THEN <<>>
    ELSE (IF i \in keep THEN <<s[i]>> ELSE <<>>) \o keepIndices(s, keep, i + 1)

\* position (from 0) of entry i after entries.sort by createdAt, a stable sort
sortedPosition(cache, i) ==
    Cardinality({j \in 1..Len(cache) :
                    \/ cache[j].createdAt < cache[i].createdAt
                    \/ cache[j].createdAt = cache[i].createdAt /\ j < i})

\* variant of cacheContext without the cleanup of old entries
cacheContextNoCleanup(cache, sessionID, context, stateHash, t) ==
    cacheSet(cache, [context |-> context, createdAt |-> t,
                     sessionID |-> sessionID, stateHash |-> stateHash])

\* cacheContext at time t (the entry's tokenCount is left out)
cacheContext(cache, sessionID, context, stateHash, t) ==
    LET entries == cacheSet(cache, [context |-> context, createdAt |-> t,
                                    sessionID |-> sessionID, stateHash |-> stateHash])
    IN IF Len(entries) > maxCacheEntries
       THEN keepIndices(entries,
                        {i \in 1..Len(entries) :
                            sortedPosition(entries, i) >= Len(entries) - keptCacheEntries},
                        1)
       ELSE entries

\* invalidateCache for each of ids
invalidateCache(cache, ids) ==
    keepIndices(cache, {i \in 1..Len(cache) : cache[i].sessionID \notin ids}, 1)

\* what generateFrameContextWithMetadata returns for a session at time t
frameContext(cache, st, sessionID, t) ==
    IF ~hasFrame(st, sessionID)
    THEN [context |-> EmptyContext, cacheHit |-> FALSE]
    ELSE IF isCacheValid(cache, sessionID, generateStateHash(st, sessionID), t)
    THEN [context |-> cacheGet(cache, sessionID).context, cacheHit |-> TRUE]
    ELSE [context |-> generateContext(st, sessionID, t), cacheHit |-> FALSE]

\* runtime.contextCache after generateFrameContextWithMetadata returned
\* `result`
frameContextCache(cache, st, sessionID, result, t) ==
    IF hasFrame(st, sessionID) /\ ~result.cacheHit
    THEN cacheContext(cache, sessionID, result.context, generateStateHash(st, sessionID), t)
    ELSE cache

\* history: the frames that have been assembled keep what was returned and
\* hashed; a change of the aggregate ends their being unchanged since
Touched(a) == [id \in DOMAIN a |-> [a[id] EXCEPT !.clean = FALSE]]

Assembled(a, cache, st, sessionID, result, t) ==
    IF ~hasFrame(st, sessionID) THEN a
    ELSE LET again == sessionID \in DOMAIN a
             cached == sessionID \in cacheKeys(cache)
             stateHash == generateStateHash(st, sessionID)
         IN Put(a, sessionID,
                [context |-> result.context,
                 cacheHit |-> result.cacheHit,
                 stateHash |-> stateHash,
                 clean |-> TRUE,
                 \* the call before this one: whether there was one, what it
                 \* returned and hashed, whether the aggregate is as it was
                 again |-> again,
                 contextBefore |-> IF again THEN a[sessionID].context ELSE result.context,
                 hashBefore |-> IF again THEN a[sessionID].stateHash ELSE stateHash,
                 unchangedSince |-> again /\ a[sessionID].clean,
                 \* the cache entry this call found: its hash and its age
                 cached |-> cached,
                 cachedHash |-> IF cached THEN cacheGet(cache, sessionID).stateHash ELSE stateHash,
                 age |-> IF cached THEN t - cacheGet(cache, sessionID).createdAt ELSE 0])

\* generateFrameContextWithMetadata returned `result` for sessionID on the
\* store st: the cache keeps what was built, the history what was returned
Generated(a, cache, st, sessionID, result) ==
    /\ contextCache' = frameContextCache(cache, st, sessionID, result, now)
    /\ assembled' = Assembled(a, cache, st, sessionID, result, now)

\* a step that assembles no context: frames stop being unchanged when the
\* aggregate changes
Observe == assembled' = IF state' = state THEN assembled ELSE Touched(assembled)

\* ------------------------------------------------------------------------
\* Autonomy: push and pop heuristics, the suggestion queue
\* ------------------------------------------------------------------------
\* the heuristics, in the order evaluatePushHeuristics and
\* evaluatePopHeuristics enter their scores
pushHeuristics == <<"failure_boundary", "context_switch", "complexity", "duration">>
popHeuristics == <<"goal_completion", "stagnation", "context_overflow">>

DEFAULT_AUTONOMY_CONFIG ==
    [level |-> "suggest", pushThreshold |-> 70, popThreshold |-> 80, suggestInContext |-> TRUE,
     enabledHeuristics |-> {"failure_boundary", "context_switch", "complexity", "duration",
                            "goal_completion", "stagnation", "context_overflow"}]

\* runtime.autonomyTracking after construction (suggestionHistory is a log
\* nothing reads back and is left out)
DefaultAutonomy ==
    [config |-> DEFAULT_AUTONOMY_CONFIG,
     pendingSuggestions |-> <<>>,
     stats |-> [totalSuggestions |-> 0, ignored |-> 0, autoPushes |-> 0, autoPops |-> 0]]

\* suggestions older than this are dropped from the pending queue:
\* 5 * 60 * 1000 ms
maxAge == 300000

min(a, b) == IF a < b THEN a ELSE b

\* Math.round(numerator / denominator) for a quotient that is not negative:
\* halves round up
round(numerator, denominator) == (2 * numerator + denominator) \div (2 * denominator)

\* scores.reduce((a, b) => a + b, 0) over the entered scores
RECURSIVE sumScores(_, _)
sumScores(heuristicScores, names) ==
    IF names = <<>> THEN 0
    ELSE (IF Head(names) \in DOMAIN heuristicScores THEN heuristicScores[Head(names)] ELSE 0)
         + sumScores(heuristicScores, Tail(names))

\* String.prototype.replace with a string pattern: the first occurrence
replace(s, pattern, replacement) ==
    LET found == {i \in 1..(Len(s) - Len(pattern) + 1) : SubSeq(s, i, i + Len(pattern) - 1) = pattern}
        first == CHOOSE i \in found : \A j \in found : i <= j
    IN IF found = {} THEN s
       ELSE SubSeq(s, 1, first - 1) \o replacement \o SubSeq(s, first + Len(pattern), Len(s))

\* the loop over Object.entries(heuristicScores): the first heuristic with
\* the highest score above 0, its first underscore replaced by a space
RECURSIVE primaryReason(_, _, _, _)
primaryReason(heuristicScores, names, maxScore, reason) ==
    IF names = <<>> THEN reason
    ELSE IF Head(names) \in DOMAIN heuristicScores /\ heuristicScores[Head(names)] > maxScore
         THEN primaryReason(heuristicScores, Tail(names), heuristicScores[Head(names)],
                            replace(Head(names), "_", " "))
         ELSE primaryReason(heuristicScores, Tail(names), maxScore, reason)

\* const confidence = scores.length > 0 ? Math.round(sum / scores.length) : 0
confidenceOf(heuristicScores, names) ==
    IF DOMAIN heuristicScores = {} THEN 0
    ELSE round(sumScores(heuristicScores, names), Cardinality(DOMAIN heuristicScores))

\* the heuristicScores evaluatePushHeuristics enters for the enabled push
\* heuristics
pushHeuristicScores(config, st, sessionID, context) ==
    LET frame == getFrame(st, sessionID)
        recentMessages == context.recentMessages
        recentFileChanges == context.recentFileChanges
        currentGoal == IF ~hasFrame(st, sessionID) THEN "" ELSE content(frame.title)
        potentialNewGoal == content(context.potentialNewGoal)
        errorCount == context.errorCount
        tokenCount == context.tokenCount
        failureScore ==
            (IF errorCount > 0 THEN min(50, errorCount * 15) ELSE 0)
            + (IF potentialNewGoal # "" /\ potentialNewGoal # currentGoal THEN 30 ELSE 0)
        currentKeywords == extractKeywords(currentGoal)
        newKeywords == extractKeywords(potentialNewGoal)
        overlap == Cardinality(newKeywords \cap currentKeywords)
        size == Cardinality(currentKeywords)
        contextSwitchScore ==
            (IF potentialNewGoal # "" /\ currentGoal # ""
             THEN IF size > 0 THEN round((size - overlap) * 60, size) ELSE 60
             ELSE 0)
            + (IF Len(recentFileChanges) > 3 THEN 20
               ELSE IF Len(recentFileChanges) > 1 THEN 10 ELSE 0)
        complexityScore ==
            (IF recentMessages > 20 THEN 40
             ELSE IF recentMessages > 10 THEN 25
             ELSE IF recentMessages > 5 THEN 10 ELSE 0)
            + (IF Len(recentFileChanges) > 5 THEN 30
               ELSE IF Len(recentFileChanges) > 2 THEN 15 ELSE 0)
        durationScore ==
            IF tokenCount > 50000 THEN 70
            ELSE IF tokenCount > 30000 THEN 50
            ELSE IF tokenCount > 15000 THEN 30
            ELSE IF tokenCount > 5000 THEN 15 ELSE 0
        all == [failure_boundary |-> failureScore, context_switch |-> contextSwitchScore,
                complexity |-> complexityScore, duration |-> durationScore]
    IN [h \in DOMAIN all \cap config.enabledHeuristics |-> all[h]]

\* a variant whose confidence is the average with its fraction cut off
evaluatePushHeuristicsFloor(config, st, sessionID, context) ==
    LET heuristicScores == pushHeuristicScores(config, st, sessionID, context)
        confidence == IF DOMAIN heuristicScores = {} THEN 0
                      ELSE sumScores(heuristicScores, pushHeuristics)
                           \div Cardinality(DOMAIN heuristicScores)
    IN [shouldPush |-> confidence >= config.pushThreshold,
        confidence |-> confidence,
        suggestedGoal |-> context.potentialNewGoal,
        primaryReason |-> primaryReason(heuristicScores, pushHeuristics, 0, "No strong signals"),
        heuristicScores |-> heuristicScores]

\* evaluatePushHeuristics on the store st
evaluatePushHeuristics(config, st, sessionID, context) ==
    LET heuristicScores == pushHeuristicScores(config, st, sessionID, context)
        confidence == confidenceOf(heuristicScores, pushHeuristics)
    IN [shouldPush |-> confidence >= config.pushThreshold,
        confidence |-> confidence,
        suggestedGoal |-> context.potentialNewGoal,
        primaryReason |-> primaryReason(heuristicScores, pushHeuristics, 0, "No strong signals"),
        heuristicScores |-> heuristicScores]

\* evaluatePopHeuristics on the store st
evaluatePopHeuristics(config, st, sessionID, context) ==
    LET frame == getFrame(st, sessionID)
        goalKeywords == IF ~hasFrame(st, sessionID) THEN {}
                        ELSE extractKeywords(content(frame.title) \o " "
                                             \o content(frame.successCriteria))
        recentArtifacts == IF ~hasFrame(st, sessionID) THEN <<>> ELSE frame.artifacts
        successSignals == context.successSignals
        failureSignals == context.failureSignals
        noProgressTurns == context.noProgressTurns
        tokenCount == context.tokenCount
        contextLimit == IF context.contextLimit = 0 THEN 100000 ELSE context.contextLimit
        allText == toLowerCase(join(recentArtifacts \o successSignals, " "))
        keywordHits == Cardinality({k \in goalKeywords : includes(allText, k)})
        completionScore ==
            (IF Len(successSignals) > 0 THEN min(60, Len(successSignals) * 20) ELSE 0)
            + (IF Len(recentArtifacts) > 0 THEN min(30, Len(recentArtifacts) * 10) ELSE 0)
            + (IF goalKeywords # {}
               THEN round(keywordHits * 30, Cardinality(goalKeywords)) ELSE 0)
        stagnationScore ==
            (IF noProgressTurns > 5 THEN 70
             ELSE IF noProgressTurns > 3 THEN 40
             ELSE IF noProgressTurns > 1 THEN 20 ELSE 0)
            + (IF Len(failureSignals) > 3 THEN 40
               ELSE IF Len(failureSignals) > 1 THEN 20 ELSE 0)
        overflowScore ==
            IF 10 * tokenCount > 9 * contextLimit THEN 90
            ELSE IF 10 * tokenCount > 8 * contextLimit THEN 70
            ELSE IF 10 * tokenCount > 7 * contextLimit THEN 50
            ELSE IF 10 * tokenCount > 5 * contextLimit THEN 20 ELSE 0
        all == [goal_completion |-> completionScore, stagnation |-> stagnationScore,
                context_overflow |-> overflowScore]
        heuristicScores == [h \in DOMAIN all \cap config.enabledHeuristics |-> all[h]]
        confidence == confidenceOf(heuristicScores, popHeuristics)
        enabled(h) == h \in DOMAIN heuristicScores
        staged == IF enabled("stagnation") /\ Len(failureSignals) > 3 THEN "failed"
                  ELSE IF enabled("stagnation") /\ noProgressTurns > 5 THEN "blocked"
                  ELSE "completed"
        suggestedStatus ==
            IF enabled("stagnation") /\ stagnationScore > 60
            THEN IF Len(failureSignals) > Len(successSignals) THEN "failed" ELSE "blocked"
            ELSE IF enabled("goal_completion") /\ completionScore > 60 THEN "completed"
            ELSE staged
    IN [shouldPop |-> confidence >= config.popThreshold,
        confidence |-> confidence,
        suggestedStatus |-> suggestedStatus,
        primaryReason |-> primaryReason(heuristicScores, popHeuristics, 0, "No strong signals"),
        heuristicScores |-> heuristicScores]

\* createSuggestion
createSuggestion(type, confidence, suggestion, reason, t) ==
    [type |-> type, confidence |-> confidence, suggestion |-> suggestion, reason |-> reason,
     timestamp |-> t, actedUpon |-> FALSE]

\* addSuggestion
addSuggestion(tracking, suggestion) ==
    [tracking EXCEPT !.pendingSuggestions = Append(@, suggestion),
                     !.stats.totalSuggestions = @ + 1]

\* the suggestion has been pending for longer than maxAge at time t
expired(s, t) == t - s.timestamp > maxAge

\* a variant that drops expired suggestions without counting them
getPendingSuggestionsUncounted(tracking, t) ==
    [tracking EXCEPT !.pendingSuggestions = SelectSeq(@, LAMBDA s : ~expired(s, t))]

\* getPendingSuggestions: autonomyTracking after the call; the call returns
\* its pendingSuggestions
getPendingSuggestions(tracking, t) ==
    LET pending == tracking.pendingSuggestions
        dropped == {i \in 1..Len(pending) : expired(pending[i], t) /\ ~pending[i].actedUpon}
    IN [tracking EXCEPT !.pendingSuggestions = SelectSeq(pending, LAMBDA s : ~expired(s, t)),
                        !.stats.ignored = @ + Cardinality(dropped)]

\* formatSuggestionsForContext: autonomyTracking after the call
formatSuggestionsForContext(tracking, t) ==
    IF ~tracking.config.suggestInContext \/ tracking.config.level = "manual" THEN tracking
    ELSE getPendingSuggestions(tracking, t)

\* resetAutonomyStats
resetAutonomyStats(tracking) ==
    [tracking EXCEPT !.pendingSuggestions = <<>>,
                     !.stats = [totalSuggestions |-> 0, ignored |-> 0,
                                autoPushes |-> 0, autoPops |-> 0]]

\* no call of selectAncestors has been made
NoSelection == [ancestors |-> <<>>, budget |-> 0, done |-> FALSE,
                selected |-> <<>>, truncatedCount |-> 0, tokensUsed |-> 0]

\* ------------------------------------------------------------------------
\* Runtime state, Init
\* ------------------------------------------------------------------------
\* the last store operation: its name, the frame id it was given, its second
\* argument (old id or reason), whether it took effect, and the lists
\* invalidateFrame returns (cascadedPlanned, warningInProgress)
NoOp == [op |-> "none", id |-> None, arg |-> None, ok |-> TRUE, ret |-> <<{}, {}>>]
Op(op, id, arg, ok) == [op |-> op, id |-> id, arg |-> arg, ok |-> ok, ret |-> <<{}, {}>>]

\* no replaceFrameID call is being followed
NoCall == [pc |-> "none", oldID |-> None, newID |-> None, mem |-> getDefaultState]

\* a suspended handler: kind, the ids it closed over, and a status argument
Cont(k, a, b, c) == [k |-> k, a |-> a, b |-> b, c |-> c]

Created == {SesId(i) : i \in 1..hostSessions}
NextSes == SesId(hostSessions + 1)
NextPlan == PlanId(planCount + 1)

\* every step of a handler counts against the step bound of the behaviour
Step == budget.steps > 0 /\ budget' = [budget EXCEPT !.steps = @ - 1]

\* history: a completion of the frame of a tracked session that is idle
\* counts for the session's current idle period
completedAfter(id, done) ==
    IF done /\ id \in DOMAIN sessions /\ sessions[id].isIdle
    THEN completedInPeriod \cup {id}
    ELSE completedInPeriod

\* a handler may suspend only while a slot is free
FreeSlot == Cardinality(inflight) < budget.slots

\* The plugin starts with empty runtime state over whatever aggregate an
\* earlier run persisted: none (a fresh project), or the root frame that
\* ensureFrame auto-created for the user's session of that run.
PersistedRoot ==
    createFrame(getDefaultState, SesId(1), SessionTitle, defaultCriteria, defaultCriteria, None, 1)

\* the plugin after construction: the aggregate is what state.json holds
\* (nothing, or the root frame of an earlier session), the tracker is empty
ConstructedOn(persisted, created) ==
    /\ state = persisted
    /\ hostSessions = created
    /\ currentSessionID = None
    /\ sessions = <<>>
    /\ timers = {}
    /\ planCount = 0
    /\ events = {}
    /\ inflight = {}
    /\ now = 1
    /\ completedInPeriod = {}
    /\ activeSinceIdle = {}
    /\ frameFiles = state.frames
    /\ replaceCall = NoCall
    /\ contextCache = <<>>
    /\ assembled = <<>>
    /\ last = NoOp

\* the plugin starts on an empty store or on the store of an earlier run
Constructed == ConstructedOn(getDefaultState, 0) \/ ConstructedOn(PersistedRoot, 1)

Init ==
    /\ Constructed
    /\ selection = NoSelection
    /\ autonomy = DefaultAutonomy
    /\ budget = [steps |-> MaxSteps, slots |-> MaxInflight]

\* ------------------------------------------------------------------------
\* Idle/Subagent tracker
\* ------------------------------------------------------------------------
registerSubagentSession(ss, sessionID, parentSessionID, isSubagent, t) ==
    Put(ss, sessionID,
        [parentSessionID |-> parentSessionID,
         createdAt |-> t,
         isSubagent |-> isSubagent,
         hasFrame |-> FALSE,
         messageCount |-> 0,
         idleTimerID |-> FALSE,
         isIdle |-> FALSE,
         isCompleted |-> FALSE])

updateSubagentActivity(ss, sessionID) ==
    IF sessionID \notin DOMAIN ss THEN ss
    ELSE [ss EXCEPT ![sessionID].messageCount = @ + 1,
                    ![sessionID].isIdle = FALSE,
                    ![sessionID].idleTimerID = FALSE]

\* clearTimeout(session.idleTimerID) in updateSubagentActivity
activityTimers(ss, tm, sessionID) ==
    IF sessionID \in DOMAIN ss /\ ss[sessionID].idleTimerID THEN tm \ {sessionID} ELSE tm

meetsFrameHeuristics(session, t) ==
    /\ t - session.createdAt >= minDuration
    /\ session.messageCount >= minMessageCount

\* TRUE when maybeCreateSubagentFrame creates the frame
willCreateSubagentFrame(ss, sessionID, t) ==
    /\ sessionID \in DOMAIN ss
    /\ ~ss[sessionID].hasFrame
    /\ meetsFrameHeuristics(ss[sessionID], t)

\* manager.createFrame(session.sessionID, session.title, session.parentSessionID):
\* the third positional argument is successCriteria
maybeCreateSubagentFrameState(st, ss, sessionID, t) ==
    IF willCreateSubagentFrame(ss, sessionID, t)
    THEN createFrame(st, sessionID, SubagentGoal, ss[sessionID].parentSessionID, None, None, t)
    ELSE st

maybeCreateSubagentFrameSessions(ss, sessionID, t) ==
    IF willCreateSubagentFrame(ss, sessionID, t)
    THEN [ss EXCEPT ![sessionID].hasFrame = TRUE]
    ELSE ss

autoCompleteOnIdle == TRUE

\* handleSubagentIdle: the session map after the call
handleSubagentIdleSessions(ss, sessionID) ==
    IF sessionID \notin DOMAIN ss \/ ss[sessionID].isCompleted THEN ss
    ELSE [ss EXCEPT ![sessionID].isIdle = TRUE,
                    ![sessionID].idleTimerID =
                        IF autoCompleteOnIdle /\ ss[sessionID].hasFrame THEN TRUE ELSE @]

\* a variant of handleSubagentIdle that schedules no timer
handleSubagentIdleTimersUnscheduled(ss, tm, sessionID) == tm

\* handleSubagentIdle: the scheduled timers after the call
handleSubagentIdleTimers(ss, tm, sessionID) ==
    IF sessionID \notin DOMAIN ss \/ ss[sessionID].isCompleted THEN tm
    ELSE IF autoCompleteOnIdle /\ ss[sessionID].hasFrame THEN tm \cup {sessionID}
    ELSE tm

\* cleanupOldSubagentSessions; `old` are the sessions whose last activity
\* is more than an hour ago
cleanupSessions(ss, old) ==
    [s \in {x \in DOMAIN ss : ~(ss[x].isCompleted /\ x \in old)} |-> ss[s]]

cleanupTimers(ss, tm, old) ==
    tm \ {x \in DOMAIN ss : ss[x].isCompleted /\ x \in old /\ ss[x].idleTimerID}


\* ------------------------------------------------------------------------
\* Lifecycle events (the `event` hook, chat.message)
\* ------------------------------------------------------------------------
\* The state kept by session.created for a child of parentID whose title
\* matches (isSubagent) or does not match the subagent patterns.
\* manager.createFrame(info.id, goal, info.parentID): the third positional
\* argument is successCriteria.
sessionCreatedState(st, id, parentID, isSubagent, t) ==
    IF parentID # None /\ hasFrame(st, parentID) /\ isSubagent
    THEN createFrame(st, id, SubagentGoal, parentID, None, None, t)
    ELSE st

sessionCreatedSessions(st, ss, id, parentID, isSubagent, t) ==
    IF parentID # None /\ hasFrame(st, parentID)
    THEN LET reg == registerSubagentSession(ss, id, parentID, isSubagent, t)
         IN IF isSubagent THEN [reg EXCEPT ![id].hasFrame = TRUE] ELSE reg
    ELSE ss

\* event session.created, for a session the host opens itself (a user
\* session, or a child session spawned by the host's task tool)
HostSessionCreated(parentID, isSubagent) ==
    /\ Step
    /\ hostSessions < NumSes
    /\ parentID \in Created \cup {None}
    /\ hostSessions' = hostSessions + 1
    /\ currentSessionID' = NextSes
    /\ state' = sessionCreatedState(state, NextSes, parentID, isSubagent, now)
    /\ sessions' = sessionCreatedSessions(state, sessions, NextSes, parentID, isSubagent, now)
    /\ last' = Op("session.created", NextSes, None, state' # state)
    /\ frameFiles' = saveFrame(frameFiles, state', IF state' # state THEN {NextSes} ELSE {})
    /\ UNCHANGED <<replaceCall, timers, planCount, events, inflight, now, completedInPeriod, activeSinceIdle>>
    /\ contextCache' = invalidateCache(contextCache, IF state' # state THEN {parentID} ELSE {})
    /\ UNCHANGED <<selection, autonomy>>
    /\ Observe

\* event session.created, for a session a tool handler asked the host for
SessionCreated(id, parentID, isSubagent) ==
    /\ Step
    /\ [id |-> id, parentID |-> parentID] \in events
    /\ events' = events \ {[id |-> id, parentID |-> parentID]}
    /\ currentSessionID' = id
    /\ state' = sessionCreatedState(state, id, parentID, isSubagent, now)
    /\ sessions' = sessionCreatedSessions(state, sessions, id, parentID, isSubagent, now)
    /\ last' = Op("session.created", id, None, state' # state)
    /\ frameFiles' = saveFrame(frameFiles, state', IF state' # state THEN {id} ELSE {})
    /\ UNCHANGED <<replaceCall, timers, hostSessions, planCount, inflight, now, completedInPeriod, activeSinceIdle>>
    /\ contextCache' = invalidateCache(contextCache, IF state' # state THEN {parentID} ELSE {})
    /\ UNCHANGED <<selection, autonomy>>
    /\ Observe

\* event session.updated
SessionUpdated(id) ==
    /\ Step
    /\ id \in Created
    /\ currentSessionID' = id
    /\ state' = IF hasFrame(state, id) THEN setActiveFrame(state, id) ELSE state
    /\ last' = NoOp
    /\ UNCHANGED <<frameFiles, replaceCall, sessions, timers, hostSessions, planCount, events, inflight, now, completedInPeriod, activeSinceIdle>>
    /\ UNCHANGED <<contextCache, selection, autonomy>>
    /\ Observe

\* ensureFrame
ensureFrame(st, sessionID, t) ==
    IF hasFrame(st, sessionID) THEN st
    ELSE createFrame(st, sessionID, SessionTitle, defaultCriteria, defaultCriteria, None, t)

\* chat.message hook up to the end of `await manager.ensureFrame(...)`; for
\* a tracked session the handler goes on in ChatActivity
ChatMessage(id) ==
    /\ Step
    /\ id \in Created
    /\ currentSessionID' = id
    /\ state' = ensureFrame(state, id, now)
    /\ IF id \in DOMAIN sessions
       THEN /\ sessions[id].messageCount < MaxMessages
            /\ Cont("chat", id, None, "in_progress") \notin inflight
            /\ FreeSlot
            /\ inflight' = inflight \cup {Cont("chat", id, None, "in_progress")}
            /\ activeSinceIdle' = activeSinceIdle \cup {id}
       ELSE UNCHANGED <<inflight, activeSinceIdle>>
    /\ completedInPeriod' = completedInPeriod \ {id}
    /\ last' = Op("chat.message", id, None, ~hasFrame(state, id))
    /\ frameFiles' = saveFrame(frameFiles, state', IF hasFrame(state, id) THEN {} ELSE {id})
    /\ UNCHANGED <<replaceCall, sessions, timers, hostSessions, planCount, events, now>>
    /\ UNCHANGED <<contextCache, selection, autonomy>>
    /\ Observe

\* chat.message hook after the await: updateSubagentActivity(input.sessionID)
ChatActivity(id) ==
    /\ Step
    /\ Cont("chat", id, None, "in_progress") \in inflight
    /\ inflight' = inflight \ {Cont("chat", id, None, "in_progress")}
    /\ sessions' = updateSubagentActivity(sessions, id)
    /\ timers' = activityTimers(sessions, timers, id)
    \* ok records that a scheduled idle timer was cleared
    /\ last' = Op("activity", id, None, id \in timers)
    /\ UNCHANGED <<frameFiles, replaceCall, state, currentSessionID, hostSessions, planCount, events, now,
                   completedInPeriod, activeSinceIdle>>
    /\ UNCHANGED <<contextCache, selection, autonomy>>
    /\ Observe

\* event session.idle: maybeCreateSubagentFrame and handleSubagentIdle for a
\* tracked session that is not completed, then cleanupOldSubagentSessions
SessionIdle(id, old) ==
    /\ Step
    /\ id \in DOMAIN sessions
    /\ old \subseteq {x \in DOMAIN sessions : sessions[x].isCompleted}
    /\ LET tracked == id \in DOMAIN sessions /\ ~sessions[id].isCompleted
           st1 == IF tracked THEN maybeCreateSubagentFrameState(state, sessions, id, now) ELSE state
           ss1 == IF tracked THEN maybeCreateSubagentFrameSessions(sessions, id, now) ELSE sessions
           ss2 == IF tracked THEN handleSubagentIdleSessions(ss1, id) ELSE ss1
           tm2 == IF tracked THEN handleSubagentIdleTimers(ss1, timers, id) ELSE timers
       IN /\ state' = st1
          /\ sessions' = cleanupSessions(ss2, old)
          /\ timers' = cleanupTimers(ss2, tm2, old)
          /\ completedInPeriod' = completedInPeriod \cap DOMAIN cleanupSessions(ss2, old)
          /\ last' = Op("session.idle", id, None, st1 # state)
    /\ activeSinceIdle' = activeSinceIdle \ {id}
    /\ frameFiles' = saveFrame(frameFiles, state', IF state' # state THEN {id} ELSE {})
    /\ UNCHANGED <<replaceCall, currentSessionID, hostSessions, planCount, events, inflight, now>>
    /\ contextCache' = invalidateCache(contextCache, IF state' # state THEN {sessions[id].parentSessionID} ELSE {})
    /\ UNCHANGED <<selection, autonomy>>
    /\ Observe

\* the setTimeout callback of handleSubagentIdle, up to its first await
IdleTimerFires(id) ==
    /\ Step
    /\ id \in timers
    /\ timers' = timers \ {id}
    /\ IF id \in DOMAIN sessions /\ sessions[id].isIdle /\ ~sessions[id].isCompleted
       THEN /\ FreeSlot
            /\ inflight' = inflight \cup {Cont("idle", id, None, "completed")}
       ELSE UNCHANGED inflight
    /\ last' = Op("timer", id, None, inflight' # inflight)
    /\ UNCHANGED <<frameFiles, replaceCall, state, currentSessionID, sessions, hostSessions, planCount, events, now, completedInPeriod, activeSinceIdle>>
    /\ UNCHANGED <<contextCache, selection, autonomy>>
    /\ Observe

\* the rest of the callback: manager.completeFrame(sessionID, 'completed',
\* '(Auto-completed after idle timeout)'), then isCompleted = true
IdleAutoComplete(id) ==
    /\ Step
    /\ Cont("idle", id, None, "completed") \in inflight
    /\ inflight' = inflight \ {Cont("idle", id, None, "completed")}
    /\ state' = completeFrame(state, id, "completed", AutoCompletedText, None, now)
    /\ sessions' = IF id \in DOMAIN sessions
                   THEN [sessions EXCEPT ![id].isCompleted = TRUE]
                   ELSE sessions
    /\ completedInPeriod' = completedAfter(id, hasFrame(state, id))
    /\ last' = Op("auto_complete", id, None, hasFrame(state, id))
    /\ frameFiles' = saveFrame(frameFiles, state', {id})
    /\ UNCHANGED <<replaceCall, currentSessionID, timers, hostSessions, planCount, events, now, activeSinceIdle>>
    /\ contextCache' = invalidateCache(contextCache, IF id \in DOMAIN sessions THEN {id, sessions[id].parentSessionID} ELSE {id})
    /\ UNCHANGED <<selection, autonomy>>
    /\ Observe

\* event session.compacted with a summary message; no completion is ever
\* pending (registerPendingCompletion has no caller), so the summary is
\* stored with updateFrameStatus(sessionID, frame?.status || "in_progress", text)
SessionCompacted(id) ==
    /\ Step
    /\ id \in Created
    /\ hasFrame(state, id)
    /\ state' = updateFrameStatus(state, id, state.frames[id].status, SummaryText, None, now)
    /\ last' = NoOp
    /\ frameFiles' = saveFrame(frameFiles, state', {id})
    /\ UNCHANGED <<replaceCall, currentSessionID, sessions, timers, hostSessions, planCount, events, inflight, now, completedInPeriod, activeSinceIdle>>
    /\ contextCache' = invalidateCache(contextCache, {id, state.frames[id].parentSessionID})
    /\ UNCHANGED <<selection, autonomy>>
    /\ Observe

Tick ==
    /\ Step
    /\ now < MaxNow
    /\ now' = now + 1
    /\ last' = NoOp
    /\ UNCHANGED <<frameFiles, replaceCall, state, currentSessionID, sessions, timers, hostSessions, planCount, events, inflight, completedInPeriod, activeSinceIdle>>
    /\ UNCHANGED <<contextCache, selection, autonomy>>
    /\ Observe


\* ------------------------------------------------------------------------
\* Command surface (the `tool` table)
\* ------------------------------------------------------------------------
\* stack_frame_push up to `await client.session.create(...)`
PushBegin ==
    /\ Step
    /\ currentSessionID # None
    /\ hostSessions < NumSes
    /\ FreeSlot
    /\ hostSessions' = hostSessions + 1
    /\ events' = events \cup {[id |-> NextSes, parentID |-> currentSessionID]}
    /\ inflight' = inflight \cup {Cont("push", NextSes, currentSessionID, "in_progress")}
    /\ last' = NoOp
    /\ UNCHANGED <<frameFiles, replaceCall, state, currentSessionID, sessions, timers, planCount, now, completedInPeriod, activeSinceIdle>>
    /\ UNCHANGED <<contextCache, selection, autonomy>>
    /\ Observe

\* stack_frame_push after the session exists: manager.createFrame(child, ..., parent)
PushCreate(childSessionID, parentSessionID) ==
    /\ Step
    /\ Cont("push", childSessionID, parentSessionID, "in_progress") \in inflight
    /\ inflight' = inflight \ {Cont("push", childSessionID, parentSessionID, "in_progress")}
    /\ state' = createFrame(state, childSessionID, ToolTitle, ToolCriteria,
                            ToolCriteriaCompacted, parentSessionID, now)
    /\ last' = Op("push", childSessionID, None, TRUE)
    /\ frameFiles' = saveFrame(frameFiles, state', {childSessionID})
    /\ UNCHANGED <<replaceCall, currentSessionID, sessions, timers, hostSessions, planCount, events, now, completedInPeriod, activeSinceIdle>>
    /\ contextCache' = invalidateCache(contextCache, {parentSessionID})
    /\ UNCHANGED <<selection, autonomy>>
    /\ Observe

\* the checks of stack_frame_pop that precede manager.completeFrame
popAllowed(st, targetFrameID) ==
    /\ targetFrameID # None
    /\ hasFrame(st, targetFrameID)
    /\ st.frames[targetFrameID].parentSessionID # None
    /\ st.frames[targetFrameID].status \notin TerminalStatuses

\* stack_frame_pop(frameID?, status, results, resultsCompacted)
Pop(frameID, status, i) ==
    /\ Step
    /\ frameID \in DOMAIN state.frames \cup {None}
    /\ status \in PopStatuses
    /\ LET targetFrameID == IF frameID # None THEN frameID ELSE currentSessionID
       IN /\ hasFrame(state, targetFrameID)
          /\ state' = IF popAllowed(state, targetFrameID)
                      THEN completeFrame(state, targetFrameID, status, Results(i), ResultsCompacted(i), now)
                      ELSE state
          /\ completedInPeriod' = completedAfter(targetFrameID, popAllowed(state, targetFrameID))
          /\ last' = Op("pop", targetFrameID, None, popAllowed(state, targetFrameID))
    /\ frameFiles' = saveFrame(frameFiles, state', IF last'.ok THEN {last'.id} ELSE {})
    /\ UNCHANGED <<replaceCall, currentSessionID, sessions, timers, hostSessions, planCount, events, inflight, now, activeSinceIdle>>
    /\ contextCache' = invalidateCache(contextCache, IF last'.ok THEN {last'.id, state.frames[last'.id].parentSessionID} ELSE {})
    /\ UNCHANGED <<selection, autonomy>>
    /\ Observe

\* stack_frame_plan(title, successCriteria, successCriteriaCompacted, parentSessionID?)
Plan(parentSessionID) ==
    /\ Step
    /\ parentSessionID \in DOMAIN state.frames \cup {None}
    /\ planCount < NumPlan
    /\ LET parentID == IF parentSessionID # None THEN parentSessionID ELSE currentSessionID
       IN /\ parentID # None
          /\ hasFrame(state, parentID)
          /\ state' = createPlannedFrame(state, NextPlan, ToolTitle, ToolCriteria,
                                         ToolCriteriaCompacted, parentID, now)
          /\ last' = Op("plan", NextPlan, None, TRUE)
    /\ planCount' = planCount + 1
    /\ frameFiles' = saveFrame(frameFiles, state', {NextPlan, IF parentSessionID # None THEN parentSessionID ELSE currentSessionID})
    /\ UNCHANGED <<replaceCall, currentSessionID, sessions, timers, hostSessions, events, inflight, now, completedInPeriod, activeSinceIdle>>
    /\ contextCache' = invalidateCache(contextCache, {state'.frames[NextPlan].parentSessionID})
    /\ UNCHANGED <<selection, autonomy>>
    /\ Observe

\* stack_frame_activate up to `await client.session.create(...)`
ActivateBegin(sessionID) ==
    /\ Step
    /\ hasFrame(state, sessionID)
    /\ state.frames[sessionID].status = "planned"
    /\ hostSessions < NumSes
    /\ FreeSlot
    /\ LET existingFrame == state.frames[sessionID]
           parentID == IF startsWithSes(existingFrame.parentSessionID)
                       THEN existingFrame.parentSessionID ELSE None
       IN events' = events \cup {[id |-> NextSes, parentID |-> parentID]}
    /\ hostSessions' = hostSessions + 1
    /\ inflight' = inflight \cup {Cont("activate", sessionID, NextSes, "planned")}
    /\ last' = NoOp
    /\ UNCHANGED <<frameFiles, replaceCall, state, currentSessionID, sessions, timers, planCount, now, completedInPeriod, activeSinceIdle>>
    /\ UNCHANGED <<contextCache, selection, autonomy>>
    /\ Observe

\* stack_frame_activate: await manager.replaceFrameID(args.sessionID, newSessionID)
ActivateReplace(oldID, newID) ==
    /\ Step
    /\ Cont("activate", oldID, newID, "planned") \in inflight
    /\ inflight' = (inflight \ {Cont("activate", oldID, newID, "planned")})
                        \cup {Cont("activated", oldID, newID, "planned")}
    /\ state' = replaceFrameID(state, oldID, newID, now)
    /\ last' = Op("replaceFrameID", newID, oldID, hasFrame(state, oldID))
    /\ frameFiles' = replaceFrameIDFiles(frameFiles, state, oldID, newID, now)
    /\ UNCHANGED <<replaceCall, currentSessionID, sessions, timers, hostSessions, planCount, events, now, completedInPeriod, activeSinceIdle>>
    /\ UNCHANGED <<contextCache, selection, autonomy>>
    /\ Observe

\* stack_frame_activate: await manager.activateFrame(newSessionID)
ActivateFinish(oldID, newID) ==
    /\ Step
    /\ Cont("activated", oldID, newID, "planned") \in inflight
    /\ inflight' = inflight \ {Cont("activated", oldID, newID, "planned")}
    /\ state' = activateFrame(state, newID, now)
    /\ last' = Op("activateFrame", newID, None,
                  hasFrame(state, newID) /\ state.frames[newID].status = "planned")
    /\ frameFiles' = saveFrame(frameFiles, state', IF state' # state THEN {newID} ELSE {})
    /\ UNCHANGED <<replaceCall, currentSessionID, sessions, timers, hostSessions, planCount, events, now, completedInPeriod, activeSinceIdle>>
    \* invalidateCache for the frame and its parent, then generateFrameContext
    /\ LET cleared == invalidateCache(contextCache, {newID, state'.frames[newID].parentSessionID})
       IN IF last'.ok
          THEN Generated(Touched(assembled), cleared, state', newID,
                         frameContext(cleared, state', newID, now))
          ELSE UNCHANGED <<contextCache, assembled>>
    /\ UNCHANGED <<selection, autonomy>>

\* stack_frame_invalidate(sessionID?, reason)
Invalidate(frameID, i) ==
    /\ Step
    /\ frameID \in DOMAIN state.frames \cup {None}
    /\ LET sessionID == IF frameID # None THEN frameID ELSE currentSessionID
       IN /\ hasFrame(state, sessionID)
          /\ state' = invalidateFrame(state, sessionID, Reason(i), now)
          /\ last' = [Op("invalidate", sessionID, Reason(i), TRUE) EXCEPT
                          !.ret = <<cascadedPlanned(state, sessionID),
                                    warningInProgress(state, sessionID)>>]
    /\ frameFiles' = saveFrame(frameFiles, state', LET sessionID == IF frameID # None THEN frameID ELSE currentSessionID IN {sessionID} \cup cascadedPlanned(state, sessionID))
    /\ UNCHANGED <<replaceCall, currentSessionID, sessions, timers, hostSessions, planCount, events, inflight, now, completedInPeriod, activeSinceIdle>>
    /\ contextCache' = invalidateCache(contextCache, {last'.id, state.frames[last'.id].parentSessionID} \cup last'.ret[1])
    /\ UNCHANGED <<selection, autonomy>>
    /\ Observe

\* stack_subagent_complete(sessionID?, status?, summary?) with
\* completeSubagentSession
SubagentComplete(frameID, status) ==
    /\ Step
    /\ frameID \in Created \cup {None}
    /\ status \in PopStatuses
    /\ LET sessionID == IF frameID # None THEN frameID ELSE currentSessionID
           st1 == maybeCreateSubagentFrameState(state, sessions, sessionID, now)
           ss1 == maybeCreateSubagentFrameSessions(sessions, sessionID, now)
       IN /\ sessionID \in DOMAIN sessions
          /\ ~sessions[sessionID].isCompleted
          /\ timers' = IF sessions[sessionID].idleTimerID THEN timers \ {sessionID} ELSE timers
          /\ state' = IF ss1[sessionID].hasFrame
                      THEN completeFrame(st1, sessionID, status, SummaryText, None, now)
                      ELSE st1
          /\ sessions' = [ss1 EXCEPT ![sessionID].idleTimerID = FALSE,
                                     ![sessionID].isCompleted = ss1[sessionID].hasFrame]
          /\ completedInPeriod' = completedAfter(sessionID,
                        ss1[sessionID].hasFrame /\ hasFrame(st1, sessionID))
          /\ last' = Op("manual_complete", sessionID, None,
                        ss1[sessionID].hasFrame /\ hasFrame(st1, sessionID))
    /\ frameFiles' = saveFrame(frameFiles, state', IF last'.ok THEN {last'.id} ELSE {})
    /\ UNCHANGED <<replaceCall, currentSessionID, hostSessions, planCount, events, inflight, now, activeSinceIdle>>
    /\ contextCache' = invalidateCache(contextCache, IF sessions'[last'.id].isCompleted THEN {last'.id, sessions[last'.id].parentSessionID} ELSE {})
    /\ UNCHANGED <<selection, autonomy>>
    /\ Observe

\* ------------------------------------------------------------------------
\* Specification
\* ------------------------------------------------------------------------
Next ==
    \/ \E parentID \in SesIds \cup {None}, isSubagent \in BOOLEAN : HostSessionCreated(parentID, isSubagent)
    \/ \E id \in SesIds, parentID \in SesIds \cup {None}, isSubagent \in BOOLEAN :
          SessionCreated(id, parentID, isSubagent)
    \/ \E id \in SesIds : SessionUpdated(id)
    \/ \E id \in SesIds : ChatMessage(id)
    \/ \E id \in SesIds : ChatActivity(id)
    \/ \E id \in SesIds, old \in SUBSET SesIds : SessionIdle(id, old)
    \/ \E id \in SesIds : IdleTimerFires(id)
    \/ \E id \in SesIds : IdleAutoComplete(id)
    \/ \E id \in SesIds : SessionCompacted(id)
    \/ PushBegin
    \/ \E childSessionID \in SesIds, parentSessionID \in SesIds : PushCreate(childSessionID, parentSessionID)
    \/ \E frameID \in SesIds \cup PlanIds \cup {None}, status \in PopStatuses, i \in 1..NumResults : Pop(frameID, status, i)
    \/ \E parentSessionID \in SesIds \cup PlanIds \cup {None} : Plan(parentSessionID)
    \/ \E sessionID \in SesIds \cup PlanIds : ActivateBegin(sessionID)
    \/ \E oldID \in SesIds \cup PlanIds, newID \in SesIds : ActivateReplace(oldID, newID)
    \/ \E oldID \in SesIds \cup PlanIds, newID \in SesIds : ActivateFinish(oldID, newID)
    \/ \E frameID \in SesIds \cup PlanIds \cup {None}, i \in 1..NumReasons : Invalidate(frameID, i)
    \/ \E frameID \in SesIds \cup {None}, status \in PopStatuses : SubagentComplete(frameID, status)
    \/ Tick

Spec == Init /\ [][Next]_vars

\* Activation in depth: the handlers that take part in promoting planned
\* frames to sessions, followed for MaxActivateSteps steps
InitActivate ==
    /\ Constructed
    /\ selection = NoSelection
    /\ autonomy = DefaultAutonomy
    /\ budget = [steps |-> MaxActivateSteps, slots |-> MaxInflight]

NextActivate ==
    \/ \E id \in SesIds, parentID \in SesIds \cup {None}, isSubagent \in BOOLEAN :
          SessionCreated(id, parentID, isSubagent)
    \/ \E id \in SesIds : ChatMessage(id)
    \/ \E id \in SesIds : ChatActivity(id)
    \/ \E parentSessionID \in SesIds \cup PlanIds \cup {None} : Plan(parentSessionID)
    \/ \E sessionID \in SesIds \cup PlanIds : ActivateBegin(sessionID)
    \/ \E oldID \in SesIds \cup PlanIds, newID \in SesIds : ActivateReplace(oldID, newID)
    \/ \E oldID \in SesIds \cup PlanIds, newID \in SesIds : ActivateFinish(oldID, newID)

SpecActivate == InitActivate /\ [][NextActivate]_vars


\* ------------------------------------------------------------------------
\* replaceFrameID, write by write
\* ------------------------------------------------------------------------
\* the activate handler that called replaceFrameID(oldID, newID)
Activating(oldID, newID) == Cont("activate", oldID, newID, "planned")

\* children whose parentSessionID the call has still to rewrite
pendingChildren(call) ==
    {id \in DOMAIN call.mem.frames : call.mem.frames[id].parentSessionID = call.oldID}

\* index of oldID in the plannedChildren of the frame's parent (0: none)
parentEntry(call) ==
    LET parentID == call.mem.frames[call.newID].parentSessionID
    IN IF parentID # None /\ parentID \in DOMAIN call.mem.frames
       THEN indexOf(call.mem.frames[parentID].plannedChildren, call.oldID)
       ELSE 0

\* loadState, the frame's own id and its key in the frames map
ReplaceLoad(oldID, newID) ==
    /\ Step
    /\ Activating(oldID, newID) \in inflight
    /\ replaceCall = NoCall
    /\ IF hasFrame(state, oldID)
       THEN /\ replaceCall' =
                 [pc |-> "children", oldID |-> oldID, newID |-> newID,
                  mem |-> [state EXCEPT !.frames =
                             Put(Remove(@, oldID), newID,
                                 [state.frames[oldID] EXCEPT !.sessionID = newID,
                                                             !.updatedAt = now])]]
            /\ last' = NoOp
            /\ UNCHANGED inflight
       ELSE /\ inflight' = (inflight \ {Activating(oldID, newID)})
                               \cup {Cont("activated", oldID, newID, "planned")}
            /\ last' = Op("replaceFrameID", newID, oldID, FALSE)
            /\ UNCHANGED replaceCall
    /\ UNCHANGED <<state, frameFiles, currentSessionID, sessions, timers, hostSessions,
                   planCount, events, now, completedInPeriod, activeSinceIdle>>
    /\ UNCHANGED <<contextCache, selection, autonomy>>
    /\ Observe

\* one round of the loop over the children: f.parentSessionID = newID, saveFrame(f)
ReplaceSaveChild(id) ==
    /\ Step
    /\ replaceCall.pc = "children"
    /\ id \in pendingChildren(replaceCall)
    /\ replaceCall' = [replaceCall EXCEPT !.mem.frames[id].parentSessionID = replaceCall.newID,
                                          !.mem.frames[id].updatedAt = now]
    /\ frameFiles' = saveFrame(frameFiles, replaceCall'.mem, {id})
    /\ last' = NoOp
    /\ UNCHANGED <<state, currentSessionID, sessions, timers, hostSessions, planCount,
                   events, inflight, now, completedInPeriod, activeSinceIdle>>
    /\ UNCHANGED <<contextCache, selection, autonomy>>
    /\ Observe

\* parent.plannedChildren[idx] = newID, saveFrame(parent)
ReplaceSaveParent ==
    /\ Step
    /\ replaceCall.pc = "children"
    /\ pendingChildren(replaceCall) = {}
    /\ parentEntry(replaceCall) > 0
    /\ LET parentID == replaceCall.mem.frames[replaceCall.newID].parentSessionID
       IN /\ replaceCall' =
                [replaceCall EXCEPT !.pc = "frame",
                     !.mem.frames[parentID].plannedChildren[parentEntry(replaceCall)] = replaceCall.newID,
                     !.mem.frames[parentID].updatedAt = now]
          /\ frameFiles' = saveFrame(frameFiles, replaceCall'.mem, {parentID})
    /\ last' = NoOp
    /\ UNCHANGED <<state, currentSessionID, sessions, timers, hostSessions, planCount,
                   events, inflight, now, completedInPeriod, activeSinceIdle>>
    /\ UNCHANGED <<contextCache, selection, autonomy>>
    /\ Observe

\* rootFrameIDs and activeFrameID in memory, saveFrame(frame)
ReplaceSaveFrame ==
    /\ Step
    /\ \/ replaceCall.pc = "frame"
       \/ /\ replaceCall.pc = "children"
          /\ pendingChildren(replaceCall) = {}
          /\ parentEntry(replaceCall) = 0
    /\ LET mem == replaceCall.mem
           rootIdx == indexOf(mem.rootFrameIDs, replaceCall.oldID)
       IN replaceCall' =
             [replaceCall EXCEPT !.pc = "state",
                  !.mem.rootFrameIDs = IF rootIdx > 0
                                       THEN [mem.rootFrameIDs EXCEPT ![rootIdx] = replaceCall.newID]
                                       ELSE mem.rootFrameIDs,
                  !.mem.activeFrameID = IF mem.activeFrameID = replaceCall.oldID
                                        THEN replaceCall.newID ELSE mem.activeFrameID,
                  !.mem.frames[replaceCall.newID].updatedAt = now]
    /\ frameFiles' = saveFrame(frameFiles, replaceCall'.mem, {replaceCall.newID})
    /\ last' = NoOp
    /\ UNCHANGED <<state, currentSessionID, sessions, timers, hostSessions, planCount,
                   events, inflight, now, completedInPeriod, activeSinceIdle>>
    /\ UNCHANGED <<contextCache, selection, autonomy>>
    /\ Observe

\* saveState(state): the aggregate is written whole
ReplaceSaveState ==
    /\ Step
    /\ replaceCall.pc = "state"
    /\ state' = replaceCall.mem
    /\ replaceCall' = [replaceCall EXCEPT !.pc = "rename"]
    /\ last' = NoOp
    /\ UNCHANGED <<frameFiles, currentSessionID, sessions, timers, hostSessions, planCount,
                   events, inflight, now, completedInPeriod, activeSinceIdle>>
    /\ UNCHANGED <<contextCache, selection, autonomy>>
    /\ Observe

\* fs.promises.rename(oldPath, newPath), best effort; the call returns to
\* stack_frame_activate
ReplaceRename ==
    /\ Step
    /\ replaceCall.pc = "rename"
    /\ frameFiles' = IF replaceCall.oldID \in DOMAIN frameFiles
                     THEN Put(Remove(frameFiles, replaceCall.oldID), replaceCall.newID,
                              frameFiles[replaceCall.oldID])
                     ELSE frameFiles
    /\ inflight' = (inflight \ {Activating(replaceCall.oldID, replaceCall.newID)})
                       \cup {Cont("activated", replaceCall.oldID, replaceCall.newID, "planned")}
    /\ last' = Op("replaceFrameID", replaceCall.newID, replaceCall.oldID, TRUE)
    /\ replaceCall' = NoCall
    /\ UNCHANGED <<state, currentSessionID, sessions, timers, hostSessions, planCount,
                   events, now, completedInPeriod, activeSinceIdle>>
    /\ UNCHANGED <<contextCache, selection, autonomy>>
    /\ Observe

\* the next saveFrame or saveState of the call rejects: replaceFrameID throws
\* and stack_frame_activate returns "Error creating session: ..."
ReplaceFails ==
    /\ Step
    /\ replaceCall.pc \in {"children", "frame", "state"}
    /\ inflight' = inflight \ {Activating(replaceCall.oldID, replaceCall.newID)}
    /\ last' = Op("replaceFrameID", replaceCall.newID, replaceCall.oldID, FALSE)
    /\ replaceCall' = NoCall
    /\ UNCHANGED <<state, frameFiles, currentSessionID, sessions, timers, hostSessions,
                   planCount, events, now, completedInPeriod, activeSinceIdle>>
    /\ UNCHANGED <<contextCache, selection, autonomy>>
    /\ Observe

InitReplace ==
    /\ Constructed
    /\ selection = NoSelection
    /\ autonomy = DefaultAutonomy
    /\ budget = [steps |-> MaxReplaceSteps, slots |-> MaxInflight]

\* stack_frame_plan and stack_frame_activate, with replaceFrameID taking one
\* step for each of its writes; one call is followed at a time
NextReplace ==
    \/ \E parentSessionID \in SesIds \cup PlanIds \cup {None} : Plan(parentSessionID)
    \/ \E sessionID \in SesIds \cup PlanIds : ActivateBegin(sessionID)
    \/ \E oldID \in SesIds \cup PlanIds, newID \in SesIds : ReplaceLoad(oldID, newID)
    \/ \E id \in SesIds \cup PlanIds : ReplaceSaveChild(id)
    \/ ReplaceSaveParent
    \/ ReplaceSaveFrame
    \/ ReplaceSaveState
    \/ ReplaceRename
    \/ ReplaceFails
    \/ \E oldID \in SesIds \cup PlanIds, newID \in SesIds : ActivateFinish(oldID, newID)
    \/ Tick

SpecReplace == InitReplace /\ [][NextReplace]_vars


\* ------------------------------------------------------------------------
\* Store mutations, read and write apart
\* ------------------------------------------------------------------------
\* a saveState that writes nothing
saveStateSkipped(persisted, mem) == persisted

\* saveState: state.json is written whole from the caller's copy
saveState(persisted, mem) == mem

\* a store call suspended between its loadState and its writes: the method,
\* the frame, the aggregate it loaded and the arguments it will apply
StoreCall(method, sessionID, mem, args) == Cont(method, sessionID, mem, args)

StoreMethods == {"updateFrameStatus", "completeFrame"}

\* session.compacted up to the end of loadState in manager.updateFrameStatus
CompactedLoad(id) ==
    /\ Step
    /\ id \in Created
    /\ hasFrame(state, id)
    /\ FreeSlot
    /\ inflight' = inflight \cup
           {StoreCall("updateFrameStatus", id, state, [status |-> state.frames[id].status, i |-> 0])}
    /\ last' = NoOp
    /\ UNCHANGED <<state, frameFiles, replaceCall, currentSessionID, sessions, timers, hostSessions,
                   planCount, events, now, completedInPeriod, activeSinceIdle>>
    /\ UNCHANGED <<contextCache, selection, autonomy>>
    /\ Observe

\* manager.updateFrameStatus from its loaded copy: saveFrame, saveState
CompactedSave(id) ==
    /\ Step
    /\ \E c \in inflight :
          /\ c.k = "updateFrameStatus"
          /\ c.a = id
          /\ inflight' = inflight \ {c}
          /\ state' = saveState(state, updateFrameStatus(c.b, id, c.c.status, SummaryText, None, now))
    /\ frameFiles' = saveFrame(frameFiles, state', {id})
    /\ last' = Op("updateFrameStatus", id, None, TRUE)
    /\ UNCHANGED <<replaceCall, currentSessionID, sessions, timers, hostSessions, planCount,
                   events, now, completedInPeriod, activeSinceIdle>>
    /\ contextCache' = invalidateCache(contextCache, {id, state'.frames[id].parentSessionID})
    /\ UNCHANGED <<selection, autonomy>>
    /\ Observe

\* stack_frame_pop up to the end of loadState in manager.completeFrame
PopLoad(frameID, status, i) ==
    /\ Step
    /\ status \in PopStatuses
    /\ popAllowed(state, frameID)
    /\ FreeSlot
    /\ inflight' = inflight \cup
           {StoreCall("completeFrame", frameID, state, [status |-> status, i |-> i])}
    /\ last' = NoOp
    /\ UNCHANGED <<state, frameFiles, replaceCall, currentSessionID, sessions, timers, hostSessions,
                   planCount, events, now, completedInPeriod, activeSinceIdle>>
    /\ UNCHANGED <<contextCache, selection, autonomy>>
    /\ Observe

\* manager.completeFrame from its loaded copy: saveFrame, saveState
PopSave(frameID) ==
    /\ Step
    /\ \E c \in inflight :
          /\ c.k = "completeFrame"
          /\ c.a = frameID
          /\ inflight' = inflight \ {c}
          /\ state' = saveState(state, completeFrame(c.b, frameID, c.c.status, Results(c.c.i),
                                                      ResultsCompacted(c.c.i), now))
    /\ frameFiles' = saveFrame(frameFiles, state', {frameID})
    /\ completedInPeriod' = completedAfter(frameID, TRUE)
    /\ last' = Op("completeFrame", frameID, None, TRUE)
    /\ UNCHANGED <<replaceCall, currentSessionID, sessions, timers, hostSessions, planCount,
                   events, now, activeSinceIdle>>
    /\ contextCache' = invalidateCache(contextCache, {frameID, state'.frames[frameID].parentSessionID})
    /\ UNCHANGED <<selection, autonomy>>
    /\ Observe

InitRace ==
    /\ Constructed
    /\ selection = NoSelection
    /\ autonomy = DefaultAutonomy
    /\ budget = [steps |-> MaxRaceSteps, slots |-> MaxInflight]

\* sessions and plans get their frames, then compactions and pops run with their
\* reads and writes as separate steps
NextRace ==
    \/ \E parentID \in SesIds \cup {None}, isSubagent \in BOOLEAN :
          HostSessionCreated(parentID, isSubagent)
    \/ \E parentSessionID \in SesIds \cup PlanIds \cup {None} : Plan(parentSessionID)
    \/ \E id \in SesIds : CompactedLoad(id)
    \/ \E id \in SesIds : CompactedSave(id)
    \/ \E frameID \in SesIds \cup PlanIds, status \in PopStatuses, i \in 1..NumResults :
          PopLoad(frameID, status, i)
    \/ \E frameID \in SesIds \cup PlanIds : PopSave(frameID)
    \/ Tick

SpecRace == InitRace /\ [][NextRace]_vars


\* ------------------------------------------------------------------------
\* Context assembly with the cache
\* ------------------------------------------------------------------------
\* the current session was given `result` as its context by the call `op`
Returned(op, result) ==
    /\ Generated(assembled, contextCache, state, currentSessionID, result)
    /\ last' = Op(op, currentSessionID, result.context, result.cacheHit)

\* context assembly for the current session (the system prompt hook,
\* stack_context_info, stack_context_preview): the reads of the store are
\* taken together
Assemble ==
    /\ Step
    /\ currentSessionID # None
    /\ Returned("assemble", frameContext(contextCache, state, currentSessionID, now))
    /\ UNCHANGED <<state, frameFiles, replaceCall, currentSessionID, sessions, timers, hostSessions,
                   planCount, events, inflight, now, completedInPeriod, activeSinceIdle, selection, autonomy>>

\* stack_cache_clear(sessionID?)
CacheClear(sessionID) ==
    /\ Step
    /\ contextCache' = IF sessionID # None
                       THEN invalidateCache(contextCache, {sessionID})
                       ELSE <<>>
    /\ last' = NoOp
    /\ UNCHANGED <<state, frameFiles, replaceCall, currentSessionID, sessions, timers, hostSessions,
                   planCount, events, inflight, now, completedInPeriod, activeSinceIdle,
                   assembled, selection, autonomy>>

\* the time that passes between two handlers: a millisecond, the cache TTL,
\* a millisecond more than the TTL
Delays == {1, cacheTTL, cacheTTL + 1}

Wait(d) ==
    /\ Step
    /\ now' = now + d
    /\ last' = NoOp
    /\ UNCHANGED <<state, frameFiles, replaceCall, currentSessionID, sessions, timers, hostSessions,
                   planCount, events, inflight, completedInPeriod, activeSinceIdle,
                   contextCache, assembled, selection, autonomy>>

InitCache ==
    /\ Constructed
    /\ selection = NoSelection
    /\ autonomy = DefaultAutonomy
    /\ budget = [steps |-> MaxCacheSteps, slots |-> MaxInflight]

\* sessions, messages and store commands with context assemblies between
\* them, while time passes
NextCache ==
    \/ \E parentID \in SesIds \cup {None}, isSubagent \in BOOLEAN :
          HostSessionCreated(parentID, isSubagent)
    \/ \E id \in SesIds : ChatMessage(id)
    \/ \E id \in SesIds : ChatActivity(id)
    \/ \E parentSessionID \in SesIds \cup PlanIds \cup {None} : Plan(parentSessionID)
    \/ \E frameID \in SesIds \cup PlanIds \cup {None}, status \in PopStatuses, i \in 1..NumResults :
          Pop(frameID, status, i)
    \/ \E id \in SesIds : SessionCompacted(id)
    \/ \E frameID \in SesIds \cup PlanIds \cup {None}, i \in 1..NumReasons : Invalidate(frameID, i)
    \/ Assemble
    \/ \E sessionID \in SesIds \cup {None} : CacheClear(sessionID)
    \/ \E d \in Delays : Wait(d)

SpecCache == InitCache /\ [][NextCache]_vars


\* ------------------------------------------------------------------------
\* cacheContext over many sessions
\* ------------------------------------------------------------------------
\* the entry cacheContext is given for a session: a document and a hash
PutContext(sessionID, t) == Text(t)
PutHash(sessionID, t) == <<sessionID, t>>

\* cacheContext for a session the host has just opened
CachePutNew ==
    /\ hostSessions < NumPutSessions
    /\ hostSessions' = hostSessions + 1
    /\ contextCache' = cacheContext(contextCache, NextSes, PutContext(NextSes, now),
                                    PutHash(NextSes, now), now)
    /\ last' = Op("cacheContext", NextSes, None, TRUE)
    /\ UNCHANGED <<state, frameFiles, replaceCall, currentSessionID, sessions, timers, planCount,
                   events, inflight, now, completedInPeriod, activeSinceIdle, budget,
                   assembled, selection, autonomy>>

\* cacheContext for one of the first sessions, again
CachePutAgain(sessionID) ==
    /\ sessionID \in Created
    /\ contextCache' = cacheContext(contextCache, sessionID, PutContext(sessionID, now),
                                    PutHash(sessionID, now), now)
    /\ last' = Op("cacheContext", sessionID, None, TRUE)
    /\ UNCHANGED <<state, frameFiles, replaceCall, currentSessionID, sessions, timers, hostSessions,
                   planCount, events, inflight, now, completedInPeriod, activeSinceIdle, budget,
                   assembled, selection, autonomy>>

InitPut ==
    /\ Constructed
    /\ selection = NoSelection
    /\ autonomy = DefaultAutonomy
    /\ hostSessions = 0
    /\ budget = [steps |-> MaxSteps, slots |-> MaxInflight]

\* puts for up to NumPutSessions sessions and repeated puts for the first
\* NumRepeated of them, while time passes
NextPut ==
    \/ CachePutNew
    \/ \E i \in 1..NumRepeated : CachePutAgain(SesId(i))
    \/ Tick

SpecPut == InitPut /\ [][NextPut]_vars


\* ------------------------------------------------------------------------
\* selectAncestors over ancestor chains and budgets
\* ------------------------------------------------------------------------
\* the frames an ancestor chain is drawn from: one token of title and
\* criteria, one more for results, one more for an artifact
Ancestors ==
    [title : {Text(1)},
     successCriteriaCompacted : {Text(1)},
     status : {"in_progress", "completed"},
     resultsCompacted : {None, Text(3)},
     artifacts : {<<>>, <<Text(3)>>},
     updatedAt : {1}]

Chains == UNION {[1..n -> Ancestors] : n \in 0..MaxChain}

\* budget.ancestors is the default or parseInt of STACK_TOKEN_BUDGET_ANCESTORS,
\* which no code checks: it can be below 0
Budgets == (0 - 1)..MaxBudget

InitSelect ==
    /\ Constructed
    /\ hostSessions = 0
    /\ budget = [steps |-> MaxSteps, slots |-> MaxInflight]
    /\ \E chain \in Chains, b \in Budgets :
          selection = [NoSelection EXCEPT !.ancestors = chain, !.budget = b]
    /\ autonomy = DefaultAutonomy

\* generateFrameContextWithMetadata calls selectAncestors on the chain
SelectAncestors ==
    /\ ~selection.done
    /\ LET r == selectAncestors(selection.ancestors, selection.budget, now)
       IN selection' = [selection EXCEPT !.done = TRUE,
                                         !.selected = r.selected,
                                         !.truncatedCount = r.truncatedCount,
                                         !.tokensUsed = r.tokensUsed]
    /\ last' = Op("selectAncestors", None, None, TRUE)
    /\ UNCHANGED <<state, frameFiles, replaceCall, currentSessionID, sessions, timers, hostSessions,
                   planCount, events, inflight, now, completedInPeriod, activeSinceIdle, budget,
                   contextCache, assembled, autonomy>>

NextSelect == SelectAncestors

SpecSelect == InitSelect /\ [][NextSelect]_vars


\* ------------------------------------------------------------------------
\* selectSiblings over sibling lists, goals, budgets and ages
\* ------------------------------------------------------------------------
\* the frames a list of siblings is drawn from
Siblings ==
    [title : {<<"Fix Auth", 0>>, <<"the UI", 0>>},
     successCriteriaCompacted : {Text(2)},
     status : {"completed", "failed"},
     resultsCompacted : {None, <<"auth ok", 0>>},
     artifacts : {<<>>, << <<"AUTH.ts", 0>> >>},
     updatedAt : {1}]

SiblingLists == UNION {[1..n -> Siblings] : n \in 0..MaxSiblings}

\* `${frame.title} ${frame.successCriteria}` of the current frame
Goals == {"Login: fix the auth!", "docs"}

SiblingBudgets == (0 - 1)..MaxSiblingsBudget

\* time passes by hours: a sibling loses its recency bonus in ten
HourDelays == {msPerHour, 9 * msPerHour}

InitSiblings ==
    /\ Constructed
    /\ hostSessions = 0
    /\ budget = [steps |-> MaxWaits, slots |-> MaxInflight]
    /\ autonomy = DefaultAutonomy
    /\ \E list \in SiblingLists, b \in SiblingBudgets, goal \in Goals :
          selection = [siblings |-> list, budget |-> b, currentGoal |-> goal,
                       done |-> FALSE, at |-> 0, selected |-> <<>>,
                       filteredCount |-> 0, tokensUsed |-> 0]

\* generateFrameContextWithMetadata calls selectSiblings on the completed
\* siblings with the default minimum score
SelectSiblings ==
    /\ ~selection.done
    /\ LET r == selectSiblings(selection.siblings, selection.budget, selection.currentGoal,
                               minRelevanceScore, now)
       IN selection' = [selection EXCEPT !.done = TRUE,
                                         !.at = now,
                                         !.selected = r.selected,
                                         !.filteredCount = r.filteredCount,
                                         !.tokensUsed = r.tokensUsed]
    /\ last' = Op("selectSiblings", None, None, TRUE)
    /\ UNCHANGED <<state, frameFiles, replaceCall, currentSessionID, sessions, timers, hostSessions,
                   planCount, events, inflight, now, completedInPeriod, activeSinceIdle, budget,
                   contextCache, assembled, autonomy>>

NextSiblings ==
    \/ SelectSiblings
    \/ \E d \in HourDelays : ~selection.done /\ Wait(d)

SpecSiblings == InitSiblings /\ [][NextSiblings]_vars


\* ------------------------------------------------------------------------
\* Planned work: plan, activate, complete, activate the next
\* ------------------------------------------------------------------------
\* a project whose root frame an earlier session left
InitWorkflow ==
    /\ Constructed
    /\ state = PersistedRoot
    /\ selection = NoSelection
    /\ autonomy = DefaultAutonomy
    /\ budget = [steps |-> MaxWorkflowSteps, slots |-> MaxInflight]

NextWorkflow ==
    \/ \E parentSessionID \in SesIds : Plan(parentSessionID)
    \/ \E sessionID \in PlanIds : ActivateBegin(sessionID)
    \/ \E oldID \in PlanIds, newID \in SesIds : ActivateReplace(oldID, newID)
    \/ \E oldID \in PlanIds, newID \in SesIds : ActivateFinish(oldID, newID)
    \/ \E id \in SesIds, parentID \in SesIds \cup {None} : SessionCreated(id, parentID, FALSE)
    \/ \E frameID \in SesIds, i \in 1..NumResults : Pop(frameID, "completed", i)
    \/ Assemble
    \/ \E d \in HourDelays : Wait(d)

SpecWorkflow == InitWorkflow /\ [][NextWorkflow]_vars


\* ------------------------------------------------------------------------
\* Context assembly hours apart
\* ------------------------------------------------------------------------
InitRender ==
    /\ Constructed
    /\ state = PersistedRoot
    /\ selection = NoSelection
    /\ autonomy = DefaultAutonomy
    /\ budget = [steps |-> MaxRenderSteps, slots |-> MaxInflight]

\* subagent sessions of the root session that are completed by command, and
\* assemblies for the session of the last message, hours apart
NextRender ==
    \/ \E parentID \in SesIds : HostSessionCreated(parentID, TRUE)
    \/ \E frameID \in SesIds : SubagentComplete(frameID, "completed")
    \/ \E id \in SesIds : ChatMessage(id)
    \/ Assemble
    \/ \E d \in HourDelays : Wait(d)

SpecRender == InitRender /\ [][NextRender]_vars


\* ------------------------------------------------------------------------
\* Autonomy: evaluation commands and the suggestion queue
\* ------------------------------------------------------------------------
\* a variant of the read that makes the frame it looked up the active one
getFrameStateActive(st, sessionID) == [st EXCEPT !.activeFrameID = sessionID]

\* the store after manager.getFrame, which reads the aggregate through
\* loadState and writes nothing
getFrameState(st, sessionID) == st

\* goals and signals given to the evaluation commands
WorkTitle == <<"fix auth login", 0>>
NewGoals == {None, <<"fix auth tests", 0>>}
FileChanges == {<<>>, <<Text(1), Text(1)>>}
SuccessSignals == {<<>>, <<Text(1), Text(1), <<"auth login fix", 0>> >>}
FailureSignals == {<<>>}

PushContexts ==
    [recentMessages : {0}, recentFileChanges : FileChanges, potentialNewGoal : NewGoals,
     errorCount : {1, 4}, tokenCount : {0}]

PopContexts ==
    [successSignals : SuccessSignals, failureSignals : FailureSignals,
     noProgressTurns : {0, 6}, tokenCount : {0}, contextLimit : {0}]

\* configurations loadAutonomyConfigFromEnv can produce
AutonomyConfigs ==
    {DEFAULT_AUTONOMY_CONFIG,
     [DEFAULT_AUTONOMY_CONFIG EXCEPT !.level = "manual"],
     [DEFAULT_AUTONOMY_CONFIG EXCEPT !.enabledHeuristics = {"failure_boundary", "context_switch"}],
     [DEFAULT_AUTONOMY_CONFIG EXCEPT !.enabledHeuristics = {"failure_boundary", "context_switch"},
                                     !.pushThreshold = LowThreshold],
     [DEFAULT_AUTONOMY_CONFIG EXCEPT !.enabledHeuristics = {"failure_boundary", "context_switch"},
                                     !.pushThreshold = OddThreshold, !.level = "auto"],
     [DEFAULT_AUTONOMY_CONFIG EXCEPT !.enabledHeuristics = {"goal_completion", "stagnation"},
                                     !.popThreshold = LowThreshold]}

\* a store persisted by an earlier run: the root and one pushed child
PersistedChild ==
    createFrame(PersistedRoot, SesId(2), WorkTitle, ToolCriteria, ToolCriteriaCompacted, SesId(1), 1)

InitAutonomy ==
    /\ ConstructedOn(PersistedChild, 2)
    /\ selection = NoSelection
    /\ budget = [steps |-> MaxAutonomySteps, slots |-> MaxInflight]
    /\ \E config \in AutonomyConfigs : autonomy = [DefaultAutonomy EXCEPT !.config = config]

\* stack_should_push
ShouldPush(context) ==
    /\ Step
    /\ IF currentSessionID = None
       THEN /\ last' = Op("should_push", None, None, FALSE)
            /\ UNCHANGED <<state, autonomy>>
       ELSE LET config == autonomy.config
                result == evaluatePushHeuristics(config, state, currentSessionID, context)
                suggestion == createSuggestion("push", result.confidence, result.suggestedGoal,
                                               result.primaryReason, now)
                queued == addSuggestion(autonomy, suggestion)
            IN /\ state' = getFrameState(state, currentSessionID)
               /\ autonomy' =
                     IF config.level # "manual" /\ result.shouldPush
                     THEN IF config.level = "auto" /\ result.confidence >= config.pushThreshold
                          THEN [queued EXCEPT !.stats.autoPushes = @ + 1]
                          ELSE queued
                     ELSE autonomy
               /\ last' = [Op("should_push", currentSessionID, None, TRUE) EXCEPT !.ret = result]
    /\ UNCHANGED <<frameFiles, replaceCall, currentSessionID, sessions, timers, hostSessions,
                   planCount, events, inflight, now, completedInPeriod, activeSinceIdle,
                   contextCache, selection>>
    /\ Observe

\* stack_should_pop
ShouldPop(context) ==
    /\ Step
    /\ IF currentSessionID = None \/ ~hasFrame(state, currentSessionID)
       THEN /\ last' = Op("should_pop", currentSessionID, None, FALSE)
            /\ UNCHANGED <<state, autonomy>>
       ELSE LET config == autonomy.config
                frame == getFrame(state, currentSessionID)
                result == evaluatePopHeuristics(config, state, currentSessionID, context)
                suggestion == createSuggestion("pop", result.confidence, result.suggestedStatus,
                                               result.primaryReason, now)
                queued == addSuggestion(autonomy, suggestion)
            IN /\ state' = getFrameState(state, currentSessionID)
               /\ autonomy' =
                     IF config.level # "manual" /\ result.shouldPop /\ frame.parentSessionID # None
                     THEN IF config.level = "auto" /\ result.confidence >= config.popThreshold
                          THEN [queued EXCEPT !.stats.autoPops = @ + 1]
                          ELSE queued
                     ELSE autonomy
               /\ last' = [Op("should_pop", currentSessionID, None, TRUE) EXCEPT !.ret = result]
    /\ UNCHANGED <<frameFiles, replaceCall, currentSessionID, sessions, timers, hostSessions,
                   planCount, events, inflight, now, completedInPeriod, activeSinceIdle,
                   contextCache, selection>>
    /\ Observe

\* stack_auto_suggest: `enable` is "unset" or a boolean
AutoSuggest(enable, clearPending) ==
    /\ Step
    /\ LET enabled == IF enable = "unset" THEN autonomy
                      ELSE [autonomy EXCEPT !.config.suggestInContext = (enable = "true")]
           cleared == IF clearPending THEN [enabled EXCEPT !.pendingSuggestions = <<>>]
                      ELSE enabled
           shown == getPendingSuggestions(cleared, now)
       IN autonomy' = formatSuggestionsForContext(shown, now)
    /\ last' = Op("auto_suggest", None, IF clearPending THEN <<"clearPending", 0>> ELSE None, TRUE)
    /\ UNCHANGED <<state, frameFiles, replaceCall, currentSessionID, sessions, timers, hostSessions,
                   planCount, events, inflight, now, completedInPeriod, activeSinceIdle,
                   contextCache, assembled, selection>>

\* the experimental.chat.system.transform hook: the context document, then
\* the pending suggestions
SystemTransform ==
    /\ Step
    /\ currentSessionID # None
    /\ Returned("system.transform", frameContext(contextCache, state, currentSessionID, now))
    /\ autonomy' = formatSuggestionsForContext(autonomy, now)
    /\ UNCHANGED <<state, frameFiles, replaceCall, currentSessionID, sessions, timers, hostSessions,
                   planCount, events, inflight, now, completedInPeriod, activeSinceIdle, selection>>

\* stack_autonomy with reset: the default configuration and resetAutonomyStats
AutonomyReset ==
    /\ Step
    /\ autonomy' = resetAutonomyStats([autonomy EXCEPT !.config = DEFAULT_AUTONOMY_CONFIG])
    /\ last' = Op("autonomy_reset", None, None, TRUE)
    /\ UNCHANGED <<state, frameFiles, replaceCall, currentSessionID, sessions, timers, hostSessions,
                   planCount, events, inflight, now, completedInPeriod, activeSinceIdle,
                   contextCache, assembled, selection>>

\* time passes: up to the age limit of a suggestion, or just beyond it
AgeDelays == {maxAge, maxAge + 1}

NextAutonomy ==
    \/ \E id \in SesIds : ChatMessage(id)
    \/ \E context \in PushContexts : ShouldPush(context)
    \/ \E context \in PopContexts : ShouldPop(context)
    \/ \E enable \in {"unset", "true", "false"}, clearPending \in BOOLEAN : AutoSuggest(enable, clearPending)
    \/ SystemTransform
    \/ AutonomyReset
    \/ \E frameID \in SesIds, i \in 1..NumResults : Pop(frameID, "completed", i)
    \/ \E d \in AgeDelays : Wait(d)

SpecAutonomy == InitAutonomy /\ [][NextAutonomy]_vars

\* ------------------------------------------------------------------------
\* Loading a damaged state file
\* ------------------------------------------------------------------------
\* what state.json can hold instead of an aggregate: nothing (the file is
\* missing), bytes readFile cannot deliver, text that is not JSON, or JSON
\* that is not an aggregate (null, an object without frames)
UnparsedKinds == {"missing", "unreadable", "invalid"}
ForeignKinds == {"null", "object"}
DamageKinds == UnparsedKinds \cup ForeignKinds

Damaged(kind) == [file |-> kind]
isAggregate(file) == "frames" \in DOMAIN file

\* a variant without the catch: what could not be read or parsed is handed on
loadStateUncaught(file) == file

\* loadState: readFile or JSON.parse throws and the default state is
\* returned, or the parsed value is returned as it is
loadState(file) ==
    IF isAggregate(file) THEN file
    ELSE IF file.file \in UnparsedKinds THEN getDefaultState
    ELSE file

\* the write of saveState fails
WriteFailed == <<"write failed", 0>>

\* state.json is deleted, locked, truncated or overwritten from outside
Damage(kind) ==
    /\ Step
    /\ state' = Damaged(kind)
    /\ last' = Op("damage", None, None, TRUE)
    /\ UNCHANGED <<frameFiles, replaceCall, currentSessionID, sessions, timers, hostSessions,
                   planCount, events, inflight, now, completedInPeriod, activeSinceIdle,
                   contextCache, assembled, selection, autonomy>>

\* manager.getFrame: state.frames[sessionID] throws a TypeError on a value
\* without frames
GetFrame(sessionID) ==
    /\ Step
    /\ last' = [Op("getFrame", sessionID, None, isAggregate(loadState(state)))
                  EXCEPT !.ret = loadState(state)]
    /\ UNCHANGED <<state, frameFiles, replaceCall, currentSessionID, sessions, timers, hostSessions,
                   planCount, events, inflight, now, completedInPeriod, activeSinceIdle,
                   contextCache, assembled, selection, autonomy>>

\* manager.ensureFrame: getFrame, then createFrame with saveFrame and
\* saveState when the frame is missing; a file that cannot be read may not
\* be writable either
EnsureFrame(sessionID, writable) ==
    /\ Step
    /\ writable \/ (~isAggregate(state) /\ state.file = "unreadable")
    /\ LET loaded == loadState(state)
           threw == ~isAggregate(loaded)
           writes == ~threw /\ ~hasFrame(loaded, sessionID)
           ensured == ensureFrame(loaded, sessionID, now)
       IN /\ state' = IF writes /\ writable THEN ensured ELSE state
          /\ frameFiles' = IF writes /\ writable THEN saveFrame(frameFiles, ensured, {sessionID})
                           ELSE frameFiles
          /\ last' = [Op("ensureFrame", sessionID,
                         IF writes /\ ~writable THEN WriteFailed ELSE None,
                         ~threw /\ (writes => writable))
                        EXCEPT !.ret = loaded]
    /\ UNCHANGED <<replaceCall, currentSessionID, sessions, timers, hostSessions,
                   planCount, events, inflight, now, completedInPeriod, activeSinceIdle,
                   contextCache, assembled, selection, autonomy>>

\* the read of state.json was rejected although the file holds an aggregate
ReadFailed == <<"read failed", 0>>

\* manager.createFrame: loadState, the new frame entered into what was
\* loaded, saveFrame and saveState. With readFails the readFile of an intact
\* state.json is rejected (the file is locked, or out of descriptors) and
\* loadState answers with the default state
CreateFrame(sessionID, readFails) ==
    /\ Step
    /\ LET delivered == IF readFails /\ isAggregate(state) THEN Damaged("unreadable") ELSE state
           loaded == loadState(delivered)
           threw == ~isAggregate(loaded)
           created == createFrame(loaded, sessionID, ToolTitle, ToolCriteria,
                                  ToolCriteriaCompacted, None, now)
       IN /\ state' = IF threw THEN state ELSE created
          /\ frameFiles' = IF threw THEN frameFiles ELSE saveFrame(frameFiles, created, {sessionID})
          /\ last' = [Op("createFrame", sessionID,
                         IF readFails /\ isAggregate(state) THEN ReadFailed ELSE None, ~threw)
                        EXCEPT !.ret = loaded]
    /\ UNCHANGED <<replaceCall, currentSessionID, sessions, timers, hostSessions,
                   planCount, events, inflight, now, completedInPeriod, activeSinceIdle,
                   contextCache, assembled, selection, autonomy>>

InitLoad ==
    /\ Constructed
    /\ selection = NoSelection
    /\ autonomy = DefaultAutonomy
    /\ budget = [steps |-> MaxLoadSteps, slots |-> MaxInflight]

NextLoad ==
    \/ \E kind \in DamageKinds : Damage(kind)
    \/ \E sessionID \in SesIds : GetFrame(sessionID)
    \/ \E sessionID \in SesIds, writable \in BOOLEAN : EnsureFrame(sessionID, writable)
    \/ \E sessionID \in SesIds, readFails \in BOOLEAN : CreateFrame(sessionID, readFails)

SpecLoad == InitLoad /\ [][NextLoad]_vars

\* ------------------------------------------------------------------------
\* Commands on a storage whose writes can fail
\* ------------------------------------------------------------------------
\* what a command gives its caller: a success payload, an error string, or
\* an exception; `reported` are the cascaded descendants the payload names,
\* `written` the frames whose files the call wrote, `failed` the frame (or
\* StateFile) whose write was rejected
StateFile == <<"state.json", 0>>
Outcome(outcome, reported, written, failed) ==
    [outcome |-> outcome, reported |-> reported, written |-> written, failed |-> failed]

\* the ids before position failAt of the writes; all of them when no write
\* fails (failAt = 0)
writtenBefore(writes, failAt) ==
    {writes[k] : k \in 1..(IF failAt = 0 THEN Len(writes) ELSE failAt - 1)} \ {StateFile}

\* Object.values(state.frames) keeps the order of creation, which the
\* numbers of the ids follow
RECURSIVE inOrder(_)
inOrder(ids) ==
    IF ids = {} THEN <<>>
    ELSE LET first == CHOOSE a \in ids : \A b \in ids : a[2] <= b[2]
         IN <<first>> \o inOrder(ids \ {first})

\* the descendants list of invalidateFrame: the children, then the
\* descendants of each child
RECURSIVE descendantsInOrder(_, _)
RECURSIVE descendantsOfEach(_, _)
descendantsOfEach(frames, children) ==
    IF children = <<>> THEN <<>>
    ELSE descendantsInOrder(frames, Head(children)) \o descendantsOfEach(frames, Tail(children))

descendantsInOrder(frames, parentID) ==
    LET children == inOrder({id \in DOMAIN frames : frames[id].parentSessionID = parentID})
    IN children \o descendantsOfEach(frames, children)

\* the writes of invalidateFrame in their order: the frame, each planned
\* descendant, the aggregate
invalidateWrites(st, sessionID) ==
    <<sessionID>>
    \o SelectSeq(descendantsInOrder(st.frames, sessionID), LAMBDA d : st.frames[d].status = "planned")
    \o <<StateFile>>

\* stack_frame_invalidate
InvalidateOnStorage(frameID, i, failAt) ==
    /\ Step
    /\ LET sessionID == IF frameID # None THEN frameID ELSE currentSessionID
           found == sessionID # None /\ hasFrame(state, sessionID)
           writes == IF found THEN invalidateWrites(state, sessionID) ELSE <<>>
           after == invalidateFrame(state, sessionID, Reason(i), now)
           written == writtenBefore(writes, failAt)
       IN /\ failAt <= Len(writes)
          /\ state' = IF found /\ failAt = 0 THEN after ELSE state
          /\ frameFiles' = IF found THEN saveFrame(frameFiles, after, written) ELSE frameFiles
          /\ contextCache' =
                IF found /\ failAt = 0
                THEN invalidateCache(contextCache,
                        {sessionID, state.frames[sessionID].parentSessionID}
                        \cup cascadedPlanned(state, sessionID))
                ELSE contextCache
          /\ last' = [Op("stack_frame_invalidate", sessionID, Reason(i), found /\ failAt = 0)
                        EXCEPT !.ret =
                           IF ~found THEN Outcome("error", {}, {}, None)
                           ELSE IF failAt = 0
                                THEN Outcome("payload", cascadedPlanned(state, sessionID), written, None)
                                ELSE Outcome("thrown", {}, written, writes[failAt])]
    /\ UNCHANGED <<replaceCall, currentSessionID, sessions, timers, hostSessions, planCount, events,
                   inflight, now, completedInPeriod, activeSinceIdle, selection, autonomy>>
    /\ Observe

\* stack_frame_pop: completeFrame writes the frame, then the aggregate
PopOnStorage(frameID, status, i, failAt) ==
    /\ Step
    /\ status \in PopStatuses
    /\ LET targetFrameID == IF frameID # None THEN frameID ELSE currentSessionID
           allowed == popAllowed(state, targetFrameID)
           writes == IF allowed THEN <<targetFrameID, StateFile>> ELSE <<>>
           after == completeFrame(state, targetFrameID, status, Results(i), ResultsCompacted(i), now)
           written == writtenBefore(writes, failAt)
       IN /\ failAt <= Len(writes)
          /\ state' = IF allowed /\ failAt = 0 THEN after ELSE state
          /\ frameFiles' = IF allowed THEN saveFrame(frameFiles, after, written) ELSE frameFiles
          /\ contextCache' =
                IF allowed /\ failAt = 0
                THEN invalidateCache(contextCache,
                        {targetFrameID, state.frames[targetFrameID].parentSessionID})
                ELSE contextCache
          /\ last' = [Op("stack_frame_pop", targetFrameID, None, allowed /\ failAt = 0)
                        EXCEPT !.ret =
                           IF ~allowed THEN Outcome("error", {}, {}, None)
                           ELSE IF failAt = 0 THEN Outcome("payload", {}, written, None)
                                ELSE Outcome("thrown", {}, written, writes[failAt])]
    /\ UNCHANGED <<replaceCall, currentSessionID, sessions, timers, hostSessions, planCount, events,
                   inflight, now, completedInPeriod, activeSinceIdle, selection, autonomy>>
    /\ Observe

\* stack_add_artifact: the frame of the current session, written with
\* saveFrame and then saveState
AddArtifactOnStorage(artifact, failAt) ==
    /\ Step
    /\ LET sessionID == currentSessionID
           found == sessionID # None /\ hasFrame(state, sessionID)
           writes == IF found THEN <<sessionID, StateFile>> ELSE <<>>
           after == [state EXCEPT !.frames[sessionID].artifacts = Append(@, artifact),
                                  !.frames[sessionID].updatedAt = now]
           written == writtenBefore(writes, failAt)
       IN /\ failAt <= Len(writes)
          /\ state' = IF found /\ failAt = 0 THEN after ELSE state
          /\ frameFiles' = IF found THEN saveFrame(frameFiles, after, written) ELSE frameFiles
          /\ contextCache' = IF found /\ failAt = 0 THEN invalidateCache(contextCache, {sessionID})
                             ELSE contextCache
          /\ last' = [Op("stack_add_artifact", sessionID, artifact, found /\ failAt = 0)
                        EXCEPT !.ret =
                           IF ~found THEN Outcome("error", {}, {}, None)
                           ELSE IF failAt = 0 THEN Outcome("payload", {}, written, None)
                                ELSE Outcome("thrown", {}, written, writes[failAt])]
    /\ UNCHANGED <<replaceCall, currentSessionID, sessions, timers, hostSessions, planCount, events,
                   inflight, now, completedInPeriod, activeSinceIdle, selection, autonomy>>
    /\ Observe

InitStorage ==
    /\ ConstructedOn(PersistedRoot, 1)
    /\ selection = NoSelection
    /\ autonomy = DefaultAutonomy
    /\ budget = [steps |-> MaxStorageSteps, slots |-> MaxInflight]

NextStorage ==
    \/ \E id \in SesIds : ChatMessage(id)
    \/ \E parentSessionID \in SesIds \cup PlanIds : Plan(parentSessionID)
    \/ \E frameID \in SesIds \cup PlanIds \cup {None}, i \in 1..NumReasons, failAt \in 0..MaxWrites :
          InvalidateOnStorage(frameID, i, failAt)
    \/ \E frameID \in SesIds \cup PlanIds \cup {None}, i \in 1..NumResults, failAt \in 0..MaxWrites :
          PopOnStorage(frameID, "completed", i, failAt)
    \/ \E failAt \in 0..MaxWrites : AddArtifactOnStorage(Text(1), failAt)

SpecStorage == InitStorage /\ [][NextStorage]_vars

\* ------------------------------------------------------------------------
\* The evaluation commands over their input signals
\* ------------------------------------------------------------------------
\* every set of enabled heuristics
ScoreConfigs ==
    {[DEFAULT_AUTONOMY_CONFIG EXCEPT !.enabledHeuristics = enabled] :
        enabled \in SUBSET (Range(pushHeuristics) \cup Range(popHeuristics))}

ManySignals == <<Text(1), Text(2), Text(3), Text(4)>>

ScorePushContexts ==
    [recentMessages : {0, 21}, recentFileChanges : {<<>>, ManySignals \o ManySignals},
     potentialNewGoal : NewGoals, errorCount : {0, 4}, tokenCount : {0, 50001}]

ScorePopContexts ==
    [successSignals : {<<>>, ManySignals}, failureSignals : {<<>>, ManySignals},
     noProgressTurns : {0, 6}, tokenCount : {0, 95000}, contextLimit : {0}]

InitScores ==
    /\ ConstructedOn(PersistedChild, 2)
    /\ selection = NoSelection
    /\ budget = [steps |-> MaxScoreSteps, slots |-> MaxInflight]
    /\ \E config \in ScoreConfigs : autonomy = [DefaultAutonomy EXCEPT !.config = config]

NextScores ==
    \/ \E id \in SesIds : SessionUpdated(id)
    \/ \E context \in ScorePushContexts : ShouldPush(context)
    \/ \E context \in ScorePopContexts : ShouldPop(context)

SpecScores == InitScores /\ [][NextScores]_vars

\* ------------------------------------------------------------------------
\* Context assembly interleaved with store mutations
\* ------------------------------------------------------------------------
\* generateFrameContextWithMetadata reads the aggregate once per manager
\* call: getFrame, getAncestors, getCompletedSiblings, then getAllSiblings
\* and getFrame for each planned child. The model takes the first three
\* reads together (the aggregate `early`) and the later ones together (the
\* aggregate `late`). What the call holds after its reads: the frame and
\* its ancestors as in `early`, every other frame as in `late`.
readFrames(early, late, sessionID) ==
    LET kept == {sessionID} \cup Range(getAncestors(early, sessionID))
    IN [late EXCEPT !.frames =
           [id \in DOMAIN late.frames \cup kept |->
               IF id \in kept THEN early.frames[id] ELSE late.frames[id]]]

\* the document built from the reads: the completed siblings are those of
\* getCompletedSiblings, the ordering guidance and the planned children
\* come from the later reads
generateContextFromReads(early, read, sessionID, t) ==
    buildContextXml(read, sessionID,
        selectAncestors(framesOf(early, getAncestors(early, sessionID)), getTokenBudget.ancestors, t),
        selectSiblings(arrayOf({early.frames[id] : id \in getCompletedSiblings(early, sessionID)}),
                       getTokenBudget.siblings,
                       content(early.frames[sessionID].title) \o " "
                          \o content(early.frames[sessionID].successCriteria),
                       minRelevanceScore, t))

\* what generateFrameContextWithMetadata returns from its reads at time t:
\* the hash is taken over the frame, the ancestors, getAllSiblings and the
\* planned children
frameContextFromReads(cache, early, read, sessionID, t) ==
    IF isCacheValid(cache, sessionID, generateStateHash(read, sessionID), t)
    THEN [context |-> cacheGet(cache, sessionID).context, cacheHit |-> TRUE]
    ELSE [context |-> generateContextFromReads(early, read, sessionID, t), cacheHit |-> FALSE]

\* generateFrameContextWithMetadata up to the end of getCompletedSiblings
AssembleRead(sessionID) ==
    /\ Step
    /\ hasFrame(state, sessionID)
    /\ FreeSlot
    /\ \A c \in inflight : c.k # "assemble"
    /\ inflight' = inflight \cup {StoreCall("assemble", sessionID, state, None)}
    /\ last' = NoOp
    /\ UNCHANGED <<state, frameFiles, replaceCall, currentSessionID, sessions, timers, hostSessions,
                   planCount, events, now, completedInPeriod, activeSinceIdle,
                   contextCache, assembled, selection, autonomy>>

\* the rest of generateFrameContextWithMetadata: the later reads, the hash,
\* the cache lookup, and on a miss the document and cacheContext
AssembleReturn(sessionID, read, result) ==
    /\ contextCache' = frameContextCache(contextCache, read, sessionID, result, now)
    /\ assembled' = Assembled(assembled, contextCache, read, sessionID, result, now)
    /\ last' = Op("assemble", sessionID, result.context, result.cacheHit)

AssembleRest(sessionID, early, read) ==
    AssembleReturn(sessionID, read,
                   frameContextFromReads(contextCache, early, read, sessionID, now))

AssembleFinish(sessionID) ==
    /\ Step
    /\ \E c \in inflight :
          /\ c.k = "assemble"
          /\ c.a = sessionID
          /\ inflight' = inflight \ {c}
          /\ AssembleRest(sessionID, c.b, readFrames(c.b, state, sessionID))
    /\ UNCHANGED <<state, frameFiles, replaceCall, currentSessionID, sessions, timers, hostSessions,
                   planCount, events, now, completedInPeriod, activeSinceIdle, selection, autonomy>>

\* a store persisted by an earlier run: the root and two pushed children
PersistedSiblings ==
    createFrame(PersistedChild, SesId(3), ToolTitle, ToolCriteria, ToolCriteriaCompacted, SesId(1), 1)

InitInterleaved ==
    /\ ConstructedOn(PersistedSiblings, 3)
    /\ selection = NoSelection
    /\ autonomy = DefaultAutonomy
    /\ budget = [steps |-> MaxInterleavedSteps, slots |-> MaxInflight]

NextInterleaved ==
    \/ \E sessionID \in SesIds : AssembleRead(sessionID)
    \/ \E sessionID \in SesIds : AssembleFinish(sessionID)
    \/ \E frameID \in SesIds, status \in PopStatuses, i \in 1..NumResults : Pop(frameID, status, i)
    \/ \E parentSessionID \in SesIds : Plan(parentSessionID)
    \/ Tick

SpecInterleaved == InitInterleaved /\ [][NextInterleaved]_vars

\* ------------------------------------------------------------------------
\* Idle auto-completion with its scheduling
\* ------------------------------------------------------------------------
InitIdle ==
    /\ ConstructedOn(PersistedRoot, 1)
    /\ selection = NoSelection
    /\ autonomy = DefaultAutonomy
    /\ budget = [steps |-> MaxIdleSteps, slots |-> MaxInflight]

NextIdle ==
    \/ \E parentID \in SesIds, isSubagent \in BOOLEAN : HostSessionCreated(parentID, isSubagent)
    \/ \E id \in SesIds : ChatMessage(id)
    \/ \E id \in SesIds : ChatActivity(id)
    \/ \E id \in SesIds, old \in SUBSET SesIds : SessionIdle(id, old)
    \/ \E id \in SesIds : IdleTimerFires(id)
    \/ \E id \in SesIds : IdleAutoComplete(id)
    \/ \E frameID \in SesIds, status \in PopStatuses : SubagentComplete(frameID, status)
    \/ Tick

\* the event loop runs every timer that is due and resumes every handler
\* whose await has settled
FairIdle ==
    /\ \A id \in SesIds : WF_vars(IdleTimerFires(id))
    /\ \A id \in SesIds : WF_vars(IdleAutoComplete(id))
    /\ \A id \in SesIds : WF_vars(ChatActivity(id))

SpecIdle == InitIdle /\ [][NextIdle]_vars /\ FairIdle

\* ------------------------------------------------------------------------
\* Properties
\* ------------------------------------------------------------------------
CompletionOps == {"pop", "auto_complete", "manual_complete"}

\* the aggregate a completion path hands to completeFrame
BeforeCompletion(op, id) ==
    IF op = "manual_complete"
    THEN maybeCreateSubagentFrameState(state, sessions, id, now)
    ELSE state

\* C1: completing a frame whose status is already completed, failed or
\* invalidated is rejected and leaves results and resultsCompacted as they
\* were, on every completion path (pop, idle auto-completion, manual
\* subagent completion).
C1_TerminalCompletionRejected ==
    [][last'.op \in CompletionOps =>
        LET id == last'.id
            pre == BeforeCompletion(last'.op, id)
        IN (hasFrame(pre, id) /\ pre.frames[id].status \in TerminalStatuses) =>
              /\ ~last'.ok
              /\ state'.frames[id].status = pre.frames[id].status
              /\ state'.frames[id].results = pre.frames[id].results
              /\ state'.frames[id].resultsCompacted = pre.frames[id].resultsCompacted]_vars

\* C2: every frame's parentSessionID, if present, is the id of a frame of
\* the aggregate.
C2_ParentsResolve ==
    \A id \in DOMAIN state.frames :
        \/ state.frames[id].parentSessionID = None
        \/ state.frames[id].parentSessionID \in DOMAIN state.frames

RECURSIVE ReachesListedRoot(_, _, _)
ReachesListedRoot(st, id, visited) ==
    IF id \in visited \/ ~hasFrame(st, id) THEN FALSE
    ELSE IF st.frames[id].parentSessionID = None THEN id \in Range(st.rootFrameIDs)
    ELSE ReachesListedRoot(st, st.frames[id].parentSessionID, visited \cup {id})

\* C3: following parentSessionID from any frame reaches, without visiting a
\* frame twice, a parentless frame that is listed in rootFrameIDs.
C3_ChainsEndAtListedRoot ==
    \A id \in DOMAIN state.frames : ReachesListedRoot(state, id, {})

\* C4: invalidating a frame that is already invalidated is a no-op: its
\* invalidationReason and invalidatedAt stay, and no further frame changes
\* status.
C4_InvalidateIdempotent ==
    [][(/\ last'.op = "invalidate"
        /\ hasFrame(state, last'.id)
        /\ state.frames[last'.id].status = "invalidated") =>
          /\ state'.frames[last'.id].invalidationReason = state.frames[last'.id].invalidationReason
          /\ state'.frames[last'.id].invalidatedAt = state.frames[last'.id].invalidatedAt
          /\ \A d \in DOMAIN state.frames : state'.frames[d].status = state.frames[d].status]_vars

\* d is below x in the tree: x is on d's parent chain
IsDescendant(st, d, x) == x \in Range(getAncestors(st, d))

\* C5: invalidating a frame invalidates every planned descendant, at any
\* depth, with the reason derived from the given reason; returns every
\* in_progress descendant as a warning and leaves it unchanged; leaves
\* every completed, failed or invalidated descendant unchanged.
C5_InvalidationCascade ==
    [][last'.op = "invalidate" =>
        \A d \in DOMAIN state.frames :
            IsDescendant(state, d, last'.id) =>
                /\ state.frames[d].status = "planned" =>
                      /\ state'.frames[d].status = "invalidated"
                      /\ state'.frames[d].invalidationReason = CascadeReason(last'.arg)
                      /\ d \in last'.ret[1]
                /\ state.frames[d].status = "in_progress" =>
                      /\ d \in last'.ret[2]
                      /\ state'.frames[d] = state.frames[d]
                /\ state.frames[d].status \in TerminalStatuses =>
                      state'.frames[d] = state.frames[d]]_vars

\* a planned frame two levels below the invalidated frame has been cascaded
C5_Witness ==
    /\ last.op = "invalidate"
    /\ \E d \in last.ret[1] :
          /\ state.frames[d].status = "invalidated"
          /\ state.frames[d].parentSessionID # last.id
          /\ IsDescendant(state, d, last.id)

\* id is named nowhere in the aggregate
NoReference(st, id) ==
    /\ id \notin DOMAIN st.frames
    /\ \A f \in DOMAIN st.frames :
          /\ st.frames[f].sessionID # id
          /\ st.frames[f].parentSessionID # id
          /\ id \notin Range(st.frames[f].plannedChildren)
    /\ id \notin Range(st.rootFrameIDs)
    /\ st.activeFrameID # id

\* C6: after replaceFrameID(A, B) no reference to A remains in the
\* aggregate: not as a key of frames, a frame's sessionID, a child's
\* parentSessionID, a plannedChildren entry, a rootFrameIDs entry or
\* activeFrameID.
C6_NoReferenceToOldID ==
    (last.op = "replaceFrameID" /\ last.ok) => NoReference(state, last.arg)

\* C8 as stated: replaceFrameID(A, B) changes no field of the replaced
\* frame except sessionID.
C8_OnlyIdChanges ==
    [][(last'.op = "replaceFrameID" /\ last'.ok) =>
          state'.frames[last'.id] =
              [state.frames[last'.arg] EXCEPT !.sessionID = last'.id]]_vars

\* C8 (amended): replaceFrameID(A, B) changes no field of the replaced
\* frame except sessionID and updatedAt, which becomes the time of the call.
C8_OnlyIdAndUpdatedAtChange ==
    [][(last'.op = "replaceFrameID" /\ last'.ok) =>
          state'.frames[last'.id] =
              [state.frames[last'.arg] EXCEPT !.sessionID = last'.id,
                                              !.updatedAt = now]]_vars

\* a planned frame carrying planned children has been given a session id
\* at a later time than it was planned
C8_Witness ==
    /\ last.op = "replaceFrameID"
    /\ last.ok
    /\ hasFrame(state, last.id)
    /\ state.frames[last.id].status = "planned"
    /\ state.frames[last.id].updatedAt = 2
    /\ state.frames[last.id].title = ToolTitle

\* C9: when a message for a tracked session arrives after the session's
\* idle notification and before its idle timer fires, the timer is
\* cancelled and its callback starts no completion of the session's frame.
C9_ActivityCancelsIdleCompletion ==
    [][\A id \in SesIds :
          (Cont("idle", id, None, "completed") \in inflight' \ inflight) =>
              id \notin activeSinceIdle]_vars

\* C10: the frame of a tracked session is completed at most once in one
\* idle period of the session.
C10_OneCompletionPerIdlePeriod ==
    [][~(/\ last'.op \in CompletionOps
         /\ last'.ok
         /\ last'.id \in completedInPeriod)]_vars

\* the kinds of location that name id, in the aggregate or in a record file
Kinds(id) ==
    (IF \/ \E f \in DOMAIN state.frames : state.frames[f].parentSessionID = id
        \/ \E f \in DOMAIN frameFiles : frameFiles[f].parentSessionID = id
     THEN {"parentSessionID"} ELSE {})
    \cup
    (IF \/ \E f \in DOMAIN state.frames : id \in Range(state.frames[f].plannedChildren)
        \/ \E f \in DOMAIN frameFiles : id \in Range(frameFiles[f].plannedChildren)
     THEN {"plannedChildren"} ELSE {})
    \cup (IF id \in Range(state.rootFrameIDs) THEN {"rootFrameIDs"} ELSE {})
    \cup (IF state.activeFrameID = id THEN {"activeFrameID"} ELSE {})

\* the replacement that is under way or has just ended, as <<old, new>>
Replacing ==
    IF replaceCall.pc # "none" THEN {<<replaceCall.oldID, replaceCall.newID>>}
    ELSE IF last.op = "replaceFrameID" THEN {<<last.arg, last.id>>}
    ELSE {}

\* C7: while replaceFrameID(A, B) runs, and after it has ended or failed,
\* the persisted state never has one of the four kinds of location
\* (children's parentSessionID, the parent's plannedChildren, rootFrameIDs,
\* activeFrameID) naming B while another kind still names A.
C7_ReplaceAtomic ==
    \A r \in Replacing :
        ~\E k1 \in Kinds(r[2]), k2 \in Kinds(r[1]) : k1 # k2

\* the store calls that wrote their aggregate in this step
Saving == {c \in inflight \ inflight' : c.k \in StoreMethods}

\* aggregates s and t hold the same for frame y: the same frame, or none
SameFrame(s, t, y) ==
    /\ hasFrame(s, y) <=> hasFrame(t, y)
    /\ hasFrame(s, y) => s.frames[y] = t.frames[y]

\* C11: two store mutations against different frames whose load/modify/save
\* windows overlap clobber each other: when a mutation writes the aggregate
\* it loaded and another frame has been changed in the persisted aggregate
\* since that load, the aggregate after the write holds that other frame as
\* it was loaded, so the other mutation's change is no longer in it.
C11_OverlappingMutationsClobber ==
    [][\A c \in Saving :
          \A y \in (DOMAIN state.frames \cup DOMAIN c.b.frames) \ {c.a} :
             ~SameFrame(state, c.b, y)
                => /\ SameFrame(state', c.b, y)
                   /\ ~SameFrame(state', state, y)]_vars

\* a mutation has just written the aggregate, and a result that another
\* mutation saved for a different frame (its record file holds it) is no
\* longer in the aggregate
C11_Witness ==
    /\ last.op \in StoreMethods
    /\ \E y \in (DOMAIN frameFiles \cap DOMAIN state.frames) \ {last.id} :
          /\ frameFiles[y].results # None
          /\ state.frames[y].results = None

\* the handlers that reach manager.createFrame: session.created, the push
\* command, frame auto-creation on a message, idle-time subagent frames
CreateOps == {"session.created", "push", "chat.message", "session.idle"}

\* C12: creating a frame under an id that already has a frame in the
\* aggregate fails, on every path that creates frames: no step of such a
\* path creates a frame for an id that had one.
C12_CreateFailsOnExistingId ==
    [][~(last'.op \in CreateOps /\ last'.ok /\ hasFrame(state, last'.id))]_vars

\* C13: completing a frame that has no parent fails and leaves the frame's
\* status, results and resultsCompacted as they were, on every completion
\* path (pop, idle auto-completion, manual subagent completion).
C13_ParentlessCompletionFails ==
    [][last'.op \in CompletionOps =>
        LET id == last'.id
            pre == BeforeCompletion(last'.op, id)
        IN (hasFrame(pre, id) /\ pre.frames[id].parentSessionID = None) =>
              /\ ~last'.ok
              /\ state'.frames[id].status = pre.frames[id].status
              /\ state'.frames[id].results = pre.frames[id].results
              /\ state'.frames[id].resultsCompacted = pre.frames[id].resultsCompacted]_vars

C15_CompletionSetsResults ==
    [][(last'.op \in CompletionOps /\ last'.ok) =>
        LET id == last'.id
        IN /\ hasFrame(state', id)
           /\ state'.frames[id].status \in PopStatuses
           /\ state'.frames[id].results # None
           /\ state'.frames[id].resultsCompacted # None
           /\ state'.activeFrameID = state'.frames[id].parentSessionID]_vars

\* C16: after a mutation that changes the state hash computed for a frame,
\* the next context assembly for that frame is a cache miss: an assembly
\* that computes another hash than the assembly before it is never a hit.
C16_HashChangeIsMiss ==
    \A id \in DOMAIN assembled :
        (assembled[id].again /\ assembled[id].hashBefore # assembled[id].stateHash)
            => ~assembled[id].cacheHit

\* the assembly found the entry of the call before, not expired, and
\* missed because the hash had changed
C16_Witness ==
    \E id \in DOMAIN assembled :
        /\ assembled[id].again
        /\ assembled[id].hashBefore # assembled[id].stateHash
        /\ assembled[id].cached
        /\ assembled[id].age <= cacheTTL
        /\ ~assembled[id].cacheHit

\* C17: two consecutive context assemblies for the same frame with no
\* store mutation between them return identical documents, and the second
\* is a cache hit.
C17_RepeatedAssemblyHits ==
    \A id \in DOMAIN assembled :
        (assembled[id].again /\ assembled[id].unchangedSince)
            => /\ assembled[id].cacheHit
               /\ assembled[id].context = assembled[id].contextBefore

\* C17 (amended): two consecutive context assemblies for the same frame
\* with no store mutation between them, when the second call still finds
\* the frame's cache entry and the entry is not older than the TTL, return
\* identical documents, and the second is a cache hit.
C17_RepeatedAssemblyHitsWithinTTL ==
    \A id \in DOMAIN assembled :
        (/\ assembled[id].again
         /\ assembled[id].unchangedSince
         /\ assembled[id].cached
         /\ assembled[id].age <= cacheTTL)
            => /\ assembled[id].cacheHit
               /\ assembled[id].context = assembled[id].contextBefore

\* a second assembly of an unchanged frame was a hit while time had passed
C17_Witness ==
    \E id \in DOMAIN assembled :
        /\ assembled[id].again
        /\ assembled[id].unchangedSince
        /\ assembled[id].age > 0
        /\ assembled[id].cacheHit
        /\ assembled[id].context = assembled[id].contextBefore

\* C18: a cache lookup is a hit only if the entry's hash equals the
\* requested hash and the entry's age is less than the TTL; with another
\* hash, or an age of the TTL or more, it is a miss.
C18_ValidOnlyBeforeTTL ==
    \A id \in DOMAIN assembled :
        assembled[id].cacheHit <=>
            /\ assembled[id].cached
            /\ assembled[id].cachedHash = assembled[id].stateHash
            /\ assembled[id].age < cacheTTL

\* the entries of a cache, as a set
Entries(cache) == {cache[i] : i \in 1..Len(cache)}

RECURSIVE SelectedTokens(_)
SelectedTokens(selected) ==
    IF selected = <<>> THEN 0
    ELSE estimateTokens(formatAncestorForContext(Head(selected)))
         + SelectedTokens(Tail(selected))

\* C20 (as stated): for any ancestor chain and any ancestors budget B, the
\* estimated tokens of the ancestors selected for the context sum to at
\* most B
C20_SelectedWithinBudget ==
    selection.done => SelectedTokens(selection.selected) <= selection.budget

\* C20 (amended): for any ancestor chain and any ancestors budget B that is
\* not negative, the estimated tokens of the ancestors selected for the
\* context sum to at most B, and the sum is the tokensUsed of the selection
C20_SelectedWithinNonNegativeBudget ==
    (selection.done /\ selection.budget >= 0)
        => /\ SelectedTokens(selection.selected) <= selection.budget
           /\ SelectedTokens(selection.selected) = selection.tokensUsed

\* a selection under a budget that is not negative took some ancestors and
\* left others out
C20_Witness ==
    /\ selection.done
    /\ selection.budget >= 0
    /\ Len(selection.selected) > 1
    /\ selection.truncatedCount > 0
    /\ Len(selection.selected) + selection.truncatedCount = Len(selection.ancestors)


\* C21: whenever the chain has at least one ancestor, the immediate parent
\* (the first of the chain) is among the selected ancestors, for any budget
C21_ParentAlwaysSelected ==
    (selection.done /\ Len(selection.ancestors) > 0)
        => selection.ancestors[1] \in Range(selection.selected)


\* the relevance score of a sibling at time t is below the minimum: with
\* its recency bonus, max(0, 100 - 10 * ageHours)
BelowMinimum(sibling, currentGoal, t) ==
    LET score == scoreSibling(sibling, currentGoal, t)
    IN (score.whole - minRelevanceScore) * msPerHour < score.lost

\* C22: a sibling whose relevance score is below the minimum relevance
\* threshold (30) is never among the selected siblings, however much of the
\* siblings budget remains
C22_IrrelevantSiblingNeverSelected ==
    selection.done =>
        \A i \in 1..Len(selection.selected) :
            ~BelowMinimum(selection.selected[i], selection.currentGoal, selection.at)

\* a selection left out a sibling that scores below the minimum although the
\* budget that remained would have paid for it, and took another
C22_Witness ==
    /\ selection.done
    /\ Len(selection.selected) > 0
    /\ \E i \in 1..Len(selection.siblings) :
          /\ BelowMinimum(selection.siblings[i], selection.currentGoal, selection.at)
          /\ selection.tokensUsed + estimateTokens(formatSiblingForContext(selection.siblings[i]))
                <= selection.budget
          /\ selection.siblings[i] \notin Range(selection.selected)


\* the texts of the tree that a context document shows
DocumentTexts(doc) ==
    LET ofFrame(f) == {f.title, f.criteria, f.results.text} \cup Range(f.artifacts)
    IN {doc.guidance.title, doc.guidance.successCriteria, doc.guidance.firstChild,
        doc.current.title, doc.current.criteria}
       \cup Range(doc.current.artifacts)
       \cup UNION {ofFrame(doc.ancestors[i]) : i \in 1..Len(doc.ancestors)}
       \cup UNION {ofFrame(f) : f \in doc.siblings}
       \cup UNION {{doc.planned[i].title, doc.planned[i].criteria} : i \in 1..Len(doc.planned)}

\* the frames whose last context is of the aggregate as it is now
Current == {id \in DOMAIN assembled : assembled[id].clean /\ hasFrame(state, id)}

\* C23: the context assembled for a frame (Y, once activated) shows each
\* completed sibling that has compacted results (X, once completed) as a
\* completed sibling with those compacted results, and shows nowhere the
\* sibling's full results
C23_CompletedSiblingInContext ==
    \A y \in Current : \A x \in getCompletedSiblings(state, y) :
        state.frames[x].resultsCompacted # None =>
            /\ \E s \in assembled[y].context.siblings :
                  /\ s.id = x
                  /\ s.status = "completed"
                  /\ s.results.text = state.frames[x].resultsCompacted
            /\ state.frames[x].results \notin DocumentTexts(assembled[y].context)

\* X and Y were planned under the root, X was activated and completed, Y
\* has just been activated, and its context has been assembled
C23_Witness ==
    /\ last.op = "activateFrame"
    /\ last.ok
    /\ last.id \in Current
    /\ state.frames[last.id].parentSessionID = SesId(1)
    /\ \E x \in getCompletedSiblings(state, last.id) :
          /\ state.frames[x].title = ToolTitle
          /\ state.frames[x].results # None
          /\ state.frames[x].resultsCompacted # None
          /\ state.frames[x].parentSessionID = SesId(1)


ReadOnlyOps == {"assemble", "system.transform", "should_push", "should_pop"}

\* C25: assembling a context document and evaluating the push or pop
\* heuristics leave the aggregate (frames, activeFrameID, rootFrameIDs) as
\* it was before the call
C25_EvaluationKeepsStore == [][last'.op \in ReadOnlyOps => state' = state]_<<state, last>>

\* a push evaluation on a store with frames recommended a push and queued
\* its suggestion
C25_Witness ==
    /\ last.op = "should_push"
    /\ last.ok
    /\ last.ret.shouldPush
    /\ autonomy.pendingSuggestions # <<>>
    /\ DOMAIN state.frames # {}


\* the scores a push evaluation returned, their number and their sum
PushScores == last.ret.heuristicScores
PushCount == Cardinality(DOMAIN PushScores)
PushSum == sumScores(PushScores, pushHeuristics)
PushEvaluated == last.op = "should_push" /\ last.ok

\* C26 as stated: a push is recommended exactly when the average of the
\* enabled push heuristics' scores is at least the push threshold
C26_PushAtAverage ==
    (PushEvaluated /\ PushCount > 0) =>
        (last.ret.shouldPush <=> PushSum >= autonomy.config.pushThreshold * PushCount)

\* C26: a push is recommended exactly when the average of the enabled push
\* heuristics' scores, rounded to the nearest integer with halves rounded
\* up, is at least the push threshold (the confidence is 0 when no push
\* heuristic is enabled); scores {failure_boundary: 80, context_switch: 20}
\* give confidence 50, no push at threshold 70 and a push at threshold 40
C26_PushAtRoundedAverage ==
    PushEvaluated =>
        /\ PushCount > 0 =>
              /\ 2 * PushCount * last.ret.confidence <= 2 * PushSum + PushCount
              /\ 2 * PushCount * last.ret.confidence > 2 * PushSum - PushCount
        /\ PushCount = 0 => last.ret.confidence = 0
        /\ last.ret.shouldPush <=> last.ret.confidence >= autonomy.config.pushThreshold
        /\ (DOMAIN PushScores = {"failure_boundary", "context_switch"}
            /\ PushScores["failure_boundary"] = 80 /\ PushScores["context_switch"] = 20) =>
              /\ last.ret.confidence = 50
              /\ autonomy.config.pushThreshold = 70 => ~last.ret.shouldPush
              /\ autonomy.config.pushThreshold = LowThreshold => last.ret.shouldPush

\* scores {failure_boundary: 80, context_switch: 20} were evaluated at
\* threshold 40 and a push was recommended
C26_Witness ==
    /\ PushEvaluated
    /\ DOMAIN PushScores = {"failure_boundary", "context_switch"}
    /\ PushScores["failure_boundary"] = 80
    /\ PushScores["context_switch"] = 20
    /\ autonomy.config.pushThreshold = LowThreshold
    /\ last.ret.shouldPush


\* the pending suggestions of queue p that are unacted and older than the
\* age limit at time t
ExpiredUnacted(p, t) == {i \in 1..Len(p) : expired(p[i], t) /\ ~p[i].actedUpon}

\* the step read the pending queue through getPendingSuggestions: the
\* system prompt hook with suggestions in context, or stack_auto_suggest
\* without clearPending
ReadPending ==
    \/ /\ last'.op = "system.transform"
       /\ autonomy.config.suggestInContext
       /\ autonomy.config.level # "manual"
    \/ last'.op = "auto_suggest" /\ last'.arg = None

Loads == last'.op \in {"getFrame", "ensureFrame"}

\* the call got the default aggregate from loadState and did not fail on it
RecoveredByDefault ==
    /\ last'.ret = getDefaultState
    /\ last'.ok \/ last'.arg = WriteFailed

StorageCommands == {"stack_frame_pop", "stack_frame_invalidate", "stack_add_artifact"}

\* C29: every command returns a success payload or a descriptive error
\* string and never throws to the caller, including when a storage read or
\* write fails during the command
C29_CommandsNeverThrow ==
    last.op \in StorageCommands => last.ret.outcome \in {"payload", "error"}

\* C30: if writing a descendant fails during a cascading invalidation, the
\* operation reports which descendants were invalidated and which were not
C30_CascadeFailureReported ==
    (last.op = "stack_frame_invalidate" /\ last.ret.failed \notin {None, StateFile, last.id}) =>
        /\ last.ret.outcome \in {"payload", "error"}
        /\ last.ret.reported = last.ret.written \ {last.id}


\* the statuses of a frame that has not been completed
OpenStatuses == {"planned", "in_progress"}

\* C31: results and resultsCompacted are set only by completing the frame,
\* so a frame whose status is planned or in_progress never carries results
C31_OpenFrameHasNoResults ==
    \A id \in DOMAIN state.frames :
        state.frames[id].status \in OpenStatuses =>
            /\ state.frames[id].results = None
            /\ state.frames[id].resultsCompacted = None


\* the identity fields of a frame
identity(frame) ==
    <<frame.title, frame.successCriteria, frame.successCriteriaCompacted>>

\* C32: once a frame has been created, its title, successCriteria and
\* successCriteriaCompacted never change, under any sequence of operations
\* and lifecycle events
C32_IdentityNeverChanges ==
    [][\A id \in DOMAIN state.frames \cap DOMAIN state'.frames :
          identity(state'.frames[id]) = identity(state.frames[id])]_state


\* TRUE when no element occurs twice in the sequence
deduplicated(s) == Cardinality(Range(s)) = Len(s)

\* C33: a frame's artifacts list never contains the same identifier twice
C33_ArtifactsDeduplicated ==
    \A id \in DOMAIN state.frames : deduplicated(state.frames[id].artifacts)


\* the step was an evaluation that returned a result
Evaluated == last.op \in {"should_push", "should_pop"} /\ last.ok

\* C34: every individual heuristic score and the overall confidence produced
\* by push evaluation and by pop evaluation lies between 0 and 100 inclusive
C34_ScoresWithinRange ==
    Evaluated =>
        /\ last.ret.confidence \in 0..100
        /\ \A h \in DOMAIN last.ret.heuristicScores : last.ret.heuristicScores[h] \in 0..100


\* the last step created a frame for a child session the host opened: on
\* its session.created event, or on idle once it met the heuristics
ExternalChildFramed ==
    /\ last.op \in {"session.created", "session.idle"}
    /\ last.ok
    /\ last.id \in DOMAIN sessions

\* C35: a frame created for an externally created child execution context
\* has parentId equal to that child's parent context id and is not listed
\* in rootFrameIds
C35_ExternalChildUnderParent ==
    ExternalChildFramed =>
        /\ hasFrame(state, last.id)
        /\ state.frames[last.id].parentSessionID = sessions[last.id].parentSessionID
        /\ last.id \notin Range(state.rootFrameIDs)


\* the status changes the lifecycle allows: none out of invalidated, only to
\* invalidated out of completed and failed, and none back to planned or
\* in_progress from a later status
statusMoveAllowed(from, to) ==
    \/ to = from
    \/ from = "planned"
    \/ from = "in_progress" /\ to # "planned"
    \/ from = "blocked" /\ to \notin OpenStatuses
    \/ from \in {"completed", "failed"} /\ to = "invalidated"

\* C36: frame status never moves backwards, under any interleaving of
\* operations and lifecycle events
C36_StatusNeverMovesBack ==
    [][\A id \in DOMAIN state.frames \cap DOMAIN state'.frames :
          statusMoveAllowed(state.frames[id].status, state'.frames[id].status)]_state


\* the last step was a context assembly served from the cache
CacheHit == last.op = "assemble" /\ last.ok

\* C37: whenever context assembly returns a cache hit for a frame, the
\* returned document is the one rendered from the states of the frame, its
\* ancestors, its siblings and its planned children that the aggregate
\* holds at the time of the hit (rendered at the time the cache entry was
\* made)
C37_HitRenderedFromCurrentStore ==
    CacheHit =>
        last.arg = generateContext(state, last.id, cacheGet(contextCache, last.id).createdAt)


\* C38: after every operation, and under any interleaving of operations
\* and lifecycle events, activeFrameId is either unset or the id of a frame
\* present in the aggregate
C38_ActiveFrameExists ==
    state.activeFrameID = None \/ hasFrame(state, state.activeFrameID)


\* the tracked session has a frame and is idle, its completion not yet done
IdleWithFrame(id) ==
    /\ id \in DOMAIN sessions
    /\ sessions[id].isIdle
    /\ sessions[id].hasFrame
    /\ ~sessions[id].isCompleted

\* the session's frame has status completed and the session is marked
\* completed
AutoCompleted(id) ==
    /\ hasFrame(state, id)
    /\ state.frames[id].status = "completed"
    /\ id \in DOMAIN sessions
    /\ sessions[id].isCompleted

\* activity followed the idle notification, or a manual completion did
Disturbed(id) ==
    \/ id \in DOMAIN sessions /\ ~sessions[id].isIdle
    \/ last.op = "manual_complete" /\ last.id = id

\* the behaviour has reached its step bound
Exhausted == budget.steps = 0

\* C39: if a tracked session that has a frame goes idle while
\* auto-complete-on-idle is enabled, and no further activity or manual
\* completion follows, then its frame is eventually completed with status
\* completed and the session is marked completed
C39_IdleLeadsToCompletion ==
    \A id \in SesIds :
        IdleWithFrame(id) ~> (AutoCompleted(id) \/ Disturbed(id) \/ Exhausted)

\* the idle timer of a session completed its frame
C39_Witness ==
    /\ last.op = "auto_complete"
    /\ last.ok
    /\ AutoCompleted(last.id)
    /\ last.id \notin activeSinceIdle
    /\ budget.steps > 0


\* the step was a store mutation that wrote a new aggregate to state.json
Mutated == last'.op \in {"createFrame", "ensureFrame"} /\ last'.ok /\ state' # state

\* the mutation's read of state.json failed, or the file held no aggregate
ReadFailedOrCorrupt == last'.arg = ReadFailed \/ ~isAggregate(state)

\* C40: if a read of the persisted aggregate fails or returns corrupt data
\* during a store mutation, that mutation does not replace the persisted
\* aggregate with one that omits frames that were persisted before the
\* failure
C40_FailedReadKeepsFrames ==
    [][(Mutated /\ ReadFailedOrCorrupt) =>
          DOMAIN frameFiles \subseteq DOMAIN state'.frames]_<<state, last>>

====
